---- MODULE Spec2Model ----
(***************************************************************************)
(* A model of the Robert Half job scraper: the two-tier match scorer of    *)
(* src/job_matcher_v2.py and the session / fetch / merge / new-job /       *)
(* evaluation pipeline of src/roberthalf_scraper.py.                       *)
(*                                                                         *)
(* Scores are fixed-point integers.  A skill score and a final score are   *)
(* kept in tenths (72.0 is 720, 77.3 is 773); the tier-2 sub-scores are    *)
(* the integers the rubric asks for.  A JSON value that is not a number    *)
(* is the sentinel NotANumber.  Python's None is the empty sequence <<>>   *)
(* and a present value v is <<v>>.                                         *)
(***************************************************************************)
EXTENDS Integers, Sequences, FiniteSets, TLC

VARIABLES
    analyzer,   \* JobMatchAnalyzerV2 instance: profile, thresholds, llm_debug
    mIn,        \* the job and the LLM replies of the last analyze_job call
    mOut,       \* what that call did: status, analysis, LLM calls issued
    pc,         \* where scrape_roberthalf_jobs stands
    error,      \* the exception that ended the run, "" if none
    matching,   \* `analyzer` of scrape_roberthalf_jobs is not None
    analyze_all,            \* the --analyze-all argument
    test_mode,              \* config TEST_MODE as save_job_results reads it
    api,                    \* what the job-search API holds and reports, per category
    csv_file,               \* output/job_data.csv: <<>> if absent, else <<Job IDs of its rows>>
    session_info,           \* None or Some(session)
    is_remote,              \* the category being fetched
    page_number,
    jobs_found_this_type,   \* None, Some(-1) or Some(reported total)
    total_jobs_api_reported,
    attempt,                \* loop variable of fetch_with_retry
    response_data,          \* what fetch_with_retry returned
    all_filtered_jobs,
    unique_job_list,        \* jobs_list of save_job_results
    duplicates_found,
    existing_job_ids_csv,
    new_job_ids,
    job_index,              \* position of save_job_results' evaluation loop
    report,                 \* None or Some(jobs written to the JSON / HTML report)
    fetch_calls,            \* history: fetch_jobs calls made for the current page
    pages_requested,        \* history: fetch_with_retry calls per category
    analyze_log,            \* history: one entry per analyze_job call
    session_file,           \* .session/session_data.json: None or Some(content)
    SAVE_SESSION,           \* config SAVE_SESSION
    now,                    \* datetime.now(UTC), in hours
    runs,                   \* which run of the scraper this is
    prev_error,             \* how the run before this one ended
    last_load,              \* history: the load_session_data call of this run
    persist,                \* history: the save_session_data call of this run
    login_calls,            \* history: login_and_get_session calls of this run
    validate_log,           \* history: results of this run's validate_session calls
    login_result,           \* login_result of get_or_refresh_session
    exit_status,            \* None while the process runs, else Some(status)
    retrying,               \* history: the answer fetch_with_retry sleeps on
    probe,                  \* a validate_session call and the fetch after it
    llm,                    \* one _call_openai_api call
    credentials,            \* config has ROBERTHALF_USERNAME and _PASSWORD
    browser,                \* history: Playwright launches, what is left open
    sleeps,                 \* history: the sleeps since the last API request
    ledger_log,             \* history: ids flagged new by earlier runs
    writers,                \* two processes inside save_session_data
    kdp                     \* one KeurigDrPepperScraper.scrape_jobs call

matcherVars == <<mIn, mOut>>

runVars ==
    <<pc, error, matching, analyze_all, test_mode, api, csv_file, session_info,
      is_remote, page_number, jobs_found_this_type, total_jobs_api_reported,
      attempt, response_data, all_filtered_jobs, unique_job_list,
      duplicates_found, existing_job_ids_csv, new_job_ids, job_index, report,
      fetch_calls, pages_requested, analyze_log>>

sessionVars ==
    <<session_file, SAVE_SESSION, now, runs, prev_error, last_load, persist,
      login_calls, validate_log, login_result>>

otherVars == <<credentials, browser, sleeps, ledger_log, writers, kdp>>

auxVars == <<exit_status, retrying, probe, llm, otherVars>>

vars == <<analyzer, matcherVars, runVars, sessionVars, auxVars>>

(***************************************************************************)
(* Program constants                                                       *)
(***************************************************************************)
\* config.get('MATCHING_THRESHOLD_TIER1', 60), in tenths
DefaultThresholdTier1 == 600
\* config.get('MATCHING_THRESHOLD_FINAL', 75), in tenths
DefaultFinalThreshold == 750
\* weights = {"skill": 0.40, ...}, in hundredths
WeightSkill == 40
WeightExperience == 25
WeightLocation == 20
WeightRole == 15

\* A JSON value that float() / the :.1f format rejects (a string, null).
NotANumber == -1000

None == <<>>
Some(v) == <<v>>

(***************************************************************************)
(* Bounds of the model                                                     *)
(***************************************************************************)
\* The largest sub-score an LLM reply carries (the rubric asks for 1-10).
MaxSubScore == 11

(***************************************************************************)
(* LLM replies, as _call_openai_api hands them to the tiers                *)
(***************************************************************************)
\* kind "none": the call returned None; "empty": the JSON object {};
\* "noscore": an object without skill_score; "badscore": skill_score is not
\* a number; "score": skill_score is the number skill10 / 10.
Tier1Reply(k, s) == [kind |-> k, skill10 |-> s]

SkillScoreValues ==
    {0, 5, 499, 500, 595, 599, 600, 601, 720, 725, 1000, 1200}

Tier1Replies ==
    {Tier1Reply(k, 0) : k \in {"none", "empty", "noscore", "badscore"}}
        \cup {Tier1Reply("score", s) : s \in SkillScoreValues}

\* kind "none": None; "empty": {}; "badshape": one of the *_match entries is
\* not an object; "dict": an object whose three scores are e, l, r (0 when
\* the entry or its score is missing, NotANumber when it is not numeric).
Tier2Reply(k, e, l, r) == [kind |-> k, e |-> e, l |-> l, r |-> r]

SubScoreValues == (0 .. MaxSubScore) \cup {NotANumber}

Tier2Replies ==
    {Tier2Reply(k, 0, 0, 0) : k \in {"none", "empty", "badshape"}}
        \cup {Tier2Reply("dict", e, l, r) :
                e \in SubScoreValues, l \in SubScoreValues, r \in SubScoreValues}

NoTier2 == Tier2Reply("notcalled", 0, 0, 0)
NoTier1 == Tier1Reply("notcalled", 0)

(***************************************************************************)
(* analyze_job                                                             *)
(***************************************************************************)
\* round(x, 1) of a value given in hundredths, as tenths.
Round1(hundredths) == (hundredths + 5) \div 10

\* The location and role weights exchanged.
WeightedScore100_SwappedWeights(skill10, e, l, r) ==
    (WeightSkill * skill10) \div 10
        + WeightExperience * e * 10
        + WeightRole * l * 10
        + WeightLocation * r * 10

\* calculated_score_10 * 10.0, in hundredths: skill10 is the tier-1 score in
\* tenths, e, l, r the tier-2 sub-scores.
WeightedScore100(skill10, e, l, r) ==
    (WeightSkill * skill10) \div 10
        + WeightExperience * e * 10
        + WeightLocation * l * 10
        + WeightRole * r * 10

\* float(x) raises ValueError / TypeError.
FloatFails(x) == x = NotANumber

\* final_score_calculated: None when the try block raised.
FinalScore(skill10, t2) ==
    IF FloatFails(t2.e) \/ FloatFails(t2.l) \/ FloatFails(t2.r)
    THEN None
    ELSE Some(Round1(WeightedScore100(skill10, t2.e, t2.l, t2.r)))

\* A null tier-1 result taken for a result.
Tier1Failed_NullPasses(t1) == t1.kind \in {"empty", "noscore"}

\* `not tier1_result or 'skill_score' not in tier1_result`
Tier1Failed(t1) == t1.kind \in {"none", "empty", "noscore"}

\* The gate written with <= : a score equal to the threshold is stopped.
BelowTier1Threshold_Inclusive(skill10, threshold) == skill10 <= threshold

\* The gate compared against the threshold on the 0-10 scale: scores between
\* threshold / 10 and threshold go on to tier 2.
BelowTier1Threshold_WrongScale(skill10, threshold) == skill10 < threshold \div 10

\* `skill_score < self.threshold_tier1`
BelowTier1Threshold(skill10, threshold) == skill10 < threshold

\* A null tier-2 result taken for a result.
Tier2Failed_NullPasses(t2) == t2.kind \in {"empty"}

\* `not tier2_result`
Tier2Failed(t2) == t2.kind \in {"none", "empty"}

\* The final comparison written with > .
MeetsFinalThreshold_Strict(final, threshold) ==
    IF final = None THEN FALSE ELSE final[1] > threshold

\* `final_score_calculated >= self.final_threshold`, False when it is None
MeetsFinalThreshold(final, threshold) ==
    IF final = None THEN FALSE ELSE final[1] >= threshold

\* The dict analyze_job returns.  full is FALSE for the two early returns
\* that carry only "error" and "analysis_timestamp".
Analysis(err, full, t1, t2, final, meets) ==
    [error |-> err, full |-> full, tier1_result |-> t1, tier2_result |-> t2,
     final_score_calculated |-> final, meets_final_threshold |-> meets]

ErrorOnly(err) == Analysis(err, FALSE, NoTier1, NoTier2, None, FALSE)

Returned(a, c1, c2) ==
    [status |-> "returned", analysis |-> a, t1calls |-> c1, t2calls |-> c2]

Raised(c1, c2) ==
    [status |-> "raised", analysis |-> ErrorOnly("raised"),
     t1calls |-> c1, t2calls |-> c2]

\* analyze_job on a job whose description is present or not, where the LLM
\* answers tier 1 with t1 and (if asked) tier 2 with t2.
analyze_job(an, description, t1, t2) ==
    IF ~an.candidate_profile THEN Returned(ErrorOnly("Profile not loaded"), 0, 0)
    ELSE IF ~description THEN Returned(ErrorOnly("Missing description"), 0, 0)
    ELSE IF Tier1Failed(t1)
    THEN Returned(Analysis("Tier 1 analysis failed", TRUE, t1, NoTier2, None, FALSE),
                  1, 0)
    ELSE IF t1.kind = "badscore" THEN Raised(1, 0)
    ELSE IF BelowTier1Threshold(t1.skill10, an.threshold_tier1)
    THEN Returned(Analysis("", TRUE, t1, NoTier2, None, FALSE), 1, 0)
    ELSE IF Tier2Failed(t2)
    THEN Returned(Analysis("Tier 2 analysis failed", TRUE, t1, NoTier2, None, FALSE),
                  1, 1)
    ELSE IF t2.kind = "badshape" THEN Raised(1, 1)
    ELSE LET final == FinalScore(t1.skill10, t2)
         IN  IF an.llm_debug /\ final = None
             THEN Raised(1, 1)
             ELSE Returned(Analysis("", TRUE, t1, t2, final,
                                    MeetsFinalThreshold(final, an.final_threshold)),
                           1, 1)

(***************************************************************************)
(* The session record on disk: load_session_data                           *)
(***************************************************************************)
\* SESSION_MAX_AGE_HOURS = config.get("SESSION_MAX_AGE_HOURS", 12)
SESSION_MAX_AGE_HOURS == 12

\* The clock, in hours, when the first run starts.
Now0 == 20
\* The number of consecutive runs followed.
MaxRuns == 2

\* The tuple (cookies, user_agent).  A cookie list or a user agent is 0 when
\* it is missing or empty and a positive identity otherwise.
Session(cookies, user_agent) ==
    [cookies |-> cookies, user_agent |-> user_agent]

\* What the session file holds.  kind: "empty" (no bytes), "garbage" (not
\* JSON), "nonobject" (JSON, but a list, string, number or null), "object".
\* ts_kind: "missing" (no key, null, "" or 0), "nonstring" (a non-zero number,
\* a list, an object), "garbage" (a string that is no ISO date), "naive" (an
\* ISO date without offset), "iso" (an ISO date with offset, at hour
\* `timestamp`).
FileContent(kind, cookies, user_agent, ts_kind, timestamp) ==
    [kind |-> kind, cookies |-> cookies, user_agent |-> user_agent,
     ts_kind |-> ts_kind, timestamp |-> timestamp]

EmptyFile == FileContent("empty", 0, 0, "missing", 0)
GarbageFile == FileContent("garbage", 0, 0, "missing", 0)
NonObjectFile == FileContent("nonobject", 0, 0, "missing", 0)

\* A record written without its timestamp.
SessionRecord_NoTimestamp(session, t) ==
    FileContent("object", session.cookies, session.user_agent, "missing", 0)

\* Lines 126-132: the object json.dump writes at hour t.
SessionRecord(session, t) ==
    FileContent("object", session.cookies, session.user_agent, "iso", t)

\* The timestamps of the records found on disk at the first run: one hour
\* past the max age, exactly at it, fresh, and one hour in the future.
Timestamps ==
    {Now0 - SESSION_MAX_AGE_HOURS - 1, Now0 - SESSION_MAX_AGE_HOURS,
     Now0, Now0 + 1}

TimestampCases ==
    {<<k, 0>> : k \in {"missing", "nonstring", "garbage", "naive"}}
        \cup {<<"iso", t>> : t \in Timestamps}

SessionFiles ==
    {None} \cup
    {Some(c) : c \in {EmptyFile, GarbageFile, NonObjectFile} \cup
                     {FileContent("object", ck, ua, k[1], k[2]) :
                          ck \in {0, 1}, ua \in {0, 1}, k \in TimestampCases}}

\* The age test with the boundary on the wrong side.
Expired_AtMaxAge(age) == age >= SESSION_MAX_AGE_HOURS

\* Line 159: datetime.now(UTC) - saved_timestamp > timedelta(hours=...)
Expired(age) == age > SESSION_MAX_AGE_HOURS

\* What a load_session_data call does: the value returned, whether it left
\* by an exception instead, and whether it called filename_path.unlink().
LoadResult(result, raised, unlink) ==
    [result |-> result, raised |-> raised, unlink |-> unlink]

\* Lines 138-171.  json.load raises JSONDecodeError on an empty or garbled
\* file, fromisoformat raises ValueError on a string that is no date, and the
\* subtraction raises TypeError on a naive date: all caught at line 167.
\* `.get` on a value that is no dict and `.replace` on a value that is no
\* string raise AttributeError, which line 167 does not catch.
load_session_data(file, save, t) ==
    IF ~save THEN LoadResult(None, FALSE, FALSE)
    ELSE IF file = None THEN LoadResult(None, FALSE, FALSE)
    ELSE LET c == file[1]
         IN  IF c.kind \in {"empty", "garbage"}
             THEN LoadResult(None, FALSE, TRUE)
             ELSE IF c.kind = "nonobject"
             THEN LoadResult(None, TRUE, FALSE)
             ELSE IF c.cookies = 0 \/ c.user_agent = 0 \/ c.ts_kind = "missing"
             THEN LoadResult(None, FALSE, FALSE)
             ELSE IF c.ts_kind = "nonstring"
             THEN LoadResult(None, TRUE, FALSE)
             ELSE IF c.ts_kind \in {"garbage", "naive"}
             THEN LoadResult(None, FALSE, TRUE)
             ELSE IF Expired(t - c.timestamp)
             THEN LoadResult(None, FALSE, TRUE)
             ELSE LoadResult(Some(Session(c.cookies, c.user_agent)),
                             FALSE, FALSE)

\* The session histories and locals before get_or_refresh_session is entered.
SessionIdle ==
    /\ last_load = None
    /\ persist = None
    /\ login_calls = 0
    /\ validate_log = <<>>
    /\ login_result = None

\* A first run with persistence enabled, no session file and the clock at Now0.
NoSessionFile ==
    /\ session_file = None
    /\ SAVE_SESSION = TRUE
    /\ now = Now0
    /\ runs = 1
    /\ prev_error = ""
    /\ SessionIdle

(***************************************************************************)
(* SpecMatcher: analyze_job applied to every job and every LLM behaviour   *)
(***************************************************************************)
Analyzers ==
    [candidate_profile : BOOLEAN,
     threshold_tier1 : {500, DefaultThresholdTier1},
     final_threshold : {DefaultFinalThreshold, 800},
     llm_debug : BOOLEAN]

MatcherIdle ==
    /\ mIn = [description |-> FALSE, t1 |-> NoTier1, t2 |-> NoTier2]
    /\ mOut = [status |-> "idle", analysis |-> ErrorOnly("idle"),
               t1calls |-> 0, t2calls |-> 0]

(***************************************************************************)
(* The job-search API over HTTP, and one LLM call                          *)
(***************************************************************************)
\* What requests.post comes back with: kind "error" (a RequestException: no
\* connection, a timeout) or "response" with a status code and a body.  The
\* body is "page" (a JSON object with content), "empty" (the JSON object {})
\* or "notjson".
HttpAnswer(kind, status, body) ==
    [kind |-> kind, status |-> status, body |-> body]

NetworkError == HttpAnswer("error", 0, "notjson")

HttpStatuses == {200, 201, 204, 299, 300, 304, 400, 401, 403, 404, 500}

HttpBodies == {"page", "empty", "notjson"}

HttpAnswers ==
    {NetworkError}
        \cup {HttpAnswer("response", st, b) : st \in HttpStatuses, b \in HttpBodies}

\* The probe accepting every status below 400.
validate_session_Below400(answer) ==
    /\ answer.kind = "response"
    /\ 200 <= answer.status /\ answer.status < 400
    /\ answer.body # "notjson"

\* The probe not looking at the body.
validate_session_AnyBody(answer) ==
    /\ answer.kind = "response"
    /\ 200 <= answer.status /\ answer.status < 300

\* Lines 309-328: the result of validate_session when the probe request is
\* answered with `answer`.  A RequestException and a JSONDecodeError are
\* caught and give False.
validate_session(answer) ==
    /\ answer.kind = "response"
    /\ 200 <= answer.status /\ answer.status < 300
    /\ answer.body # "notjson"

\* A validate_session call followed by a page fetch that the API answers the
\* same way: the answer, the probe's result, what fetch_with_retry returned.
Probe(stage, session, answer, valid, response) ==
    [stage |-> stage, session |-> session, answer |-> answer, valid |-> valid,
     response |-> response]

ProbeIdle == Probe("idle", Session(0, 0), NetworkError, FALSE, None)

\* max_retries: int = 2
max_retries == 2

\* What one chat.completions.create request of _call_openai_api ends in.
TransientErrors == {"rate_limit", "timeout", "connection"}

LLMOutcomes ==
    {"empty", "malformed", "other", "success"} \cup TransientErrors

\* One _call_openai_api call: stage "idle", "loop" or "returned", the loop's
\* attempt counter, the outcomes of the requests made so far, the result.
LLMCall(stage, n, outcomes, result) ==
    [stage |-> stage, attempt |-> n, outcomes |-> outcomes,
     result |-> result]

LLMIdle == LLMCall("idle", 0, <<>>, None)

\* Line 162: `while attempt <= max_retries`
LLMLoopContinues(n) == n <= max_retries

\* Lines 163-216: what the loop body does when its request, the n-th of the
\* call, ends in `outcome`: "return" the parsed result, "retry" (sleep and
\* go back to the loop test) or "break".
LLMStep(n, outcome) ==
    CASE outcome = "success" -> "return"
      [] outcome = "empty" -> IF n <= max_retries THEN "retry" ELSE "break"
      [] outcome = "malformed" -> IF n = 1 THEN "retry" ELSE "break"
      [] outcome \in TransientErrors ->
            IF n > max_retries THEN "break" ELSE "retry"
      [] OTHER -> "break"

\* A transient error retried once more than the bound allows.
LLMAfter_OneMore(n, outcome) ==
    IF outcome \in TransientErrors
    THEN (IF n <= max_retries + 1 THEN "loop" ELSE "returned")
    ELSE IF LLMStep(n, outcome) = "retry" /\ LLMLoopContinues(n)
    THEN "loop" ELSE "returned"

\* Lines 162-223: where the call stands after its n-th request: in the loop
\* for another request, or returned.
LLMAfter(n, outcome) ==
    IF LLMStep(n, outcome) = "retry" /\ LLMLoopContinues(n)
    THEN "loop" ELSE "returned"

\* The Playwright history of a run: how many times a browser launch was
\* attempted, the exit path of the last login_and_get_session call ("" if
\* none launched), and whether it left the browser or the context open.
Browser(launches, path, browser_open, context_open) ==
    [launches |-> launches, path |-> path, browser_open |-> browser_open,
     context_open |-> context_open]

\* The ledger history: whether this run's append succeeded, and the ids
\* flagged is_new by earlier runs that completed and appended their rows.
LedgerLog(written, flagged) == [written |-> written, flagged |-> flagged]

\* A process that may be inside save_session_data: stage "idle", "start",
\* "open" (its file is open for writing), "closed" or "closed_last" (closed
\* after the other process closed its file), with the session it saves.
Writer(stage, session) == [stage |-> stage, session |-> session]

WriterIds == {1, 2}

WritersIdle == [w \in WriterIds |-> Writer("idle", Session(0, 0))]

\* One KeurigDrPepperScraper.scrape_jobs call: the ids in the ledger file,
\* the set load_existing_job_ids returned, the ids of the postings scraped,
\* the jobs returned and new_job_ids.
Kdp(stage, ledger, loaded, scraped, jobs, new_ids) ==
    [stage |-> stage, ledger |-> ledger, loaded |-> loaded,
     scraped |-> scraped, jobs |-> jobs, new_job_ids |-> new_ids]

\* No second process and no other scraper is at work.
SideIdle ==
    /\ writers = WritersIdle
    /\ kdp = Kdp("idle", {}, {}, <<>>, <<>>, {})

\* The run's variables before scrape_roberthalf_jobs is entered.
RunIdle ==
    /\ pc \in {"start", "merge"}
    /\ error = ""
    /\ matching = FALSE
    /\ analyze_all = FALSE
    /\ session_info = None
    /\ is_remote = FALSE
    /\ page_number = 1
    /\ jobs_found_this_type = None
    /\ total_jobs_api_reported = 0
    /\ attempt = 0
    /\ response_data = None
    /\ all_filtered_jobs = <<>>
    /\ unique_job_list = <<>>
    /\ duplicates_found = 0
    /\ existing_job_ids_csv = {}
    /\ new_job_ids = {}
    /\ job_index = 0
    /\ report = None
    /\ fetch_calls = 0
    /\ pages_requested = [c \in BOOLEAN |-> 0]
    /\ analyze_log = <<>>
    /\ exit_status = None
    /\ retrying = None
    /\ browser = Browser(0, "", FALSE, FALSE)
    /\ sleeps = None
    /\ ledger_log = LedgerLog(FALSE, {})

\* No validate_session call and no _call_openai_api call is under way.
CallsIdle ==
    /\ probe = ProbeIdle
    /\ llm = LLMIdle

InitMatcher ==
    /\ analyzer \in Analyzers
    /\ MatcherIdle
    /\ RunIdle
    /\ SideIdle
    /\ credentials = TRUE
    /\ CallsIdle
    /\ NoSessionFile
    /\ pc = "start"
    /\ api = [c \in BOOLEAN |-> [found |-> 0, jobs |-> <<>>, endless |-> FALSE]]
    /\ csv_file = None
    /\ test_mode = FALSE

\* One call of analyze_job on a fresh analyzer.
AnalyzeJob ==
    /\ mOut.status = "idle"
    /\ \E d \in BOOLEAN, t1 \in Tier1Replies, t2 \in Tier2Replies :
        LET out == analyze_job(analyzer, d, t1, t2)
        IN  /\ mOut' = out
            /\ mIn' = [description |-> d,
                       t1 |-> IF out.t1calls > 0 THEN t1 ELSE NoTier1,
                       t2 |-> IF out.t2calls > 0 THEN t2 ELSE NoTier2]
            /\ UNCHANGED <<analyzer, runVars, sessionVars, auxVars>>

NextMatcher == AnalyzeJob

SpecMatcher == InitMatcher /\ [][NextMatcher]_vars

(***************************************************************************)
(* Properties of analyze_job (checked under SpecMatcher)                   *)
(***************************************************************************)
MatcherDone == mOut.status \in {"returned", "raised"}

Tier1Passed ==
    mIn.t1.kind = "score" /\ mIn.t1.skill10 >= analyzer.threshold_tier1

\* C1: analyze_job issues the tier-2 LLM call if and only if tier 1 returned
\* a result whose skill_score is at least the tier-1 threshold; it issues none
\* when tier 1 failed, lacked a skill_score or scored below the threshold,
\* and never more than one.
C1_Tier2IffTier1Passed ==
    MatcherDone =>
        /\ mOut.t2calls \in {0, 1}
        /\ (mOut.t2calls = 1) <=> Tier1Passed
        /\ mOut.t2calls = 1 => mOut.t1calls = 1

\* A tier-2 call made for a score exactly at the threshold.
C1_Witness ==
    /\ mOut.t2calls = 1
    /\ mIn.t1.skill10 = analyzer.threshold_tier1

\* C2: a returned analysis whose tier-1 skill_score is below the threshold
\* records the tier-1 result and has tier2_result null, final score null and
\* meets_final_threshold false.
C2_BelowThresholdStops ==
    (/\ mOut.status = "returned"
     /\ mIn.t1.kind = "score"
     /\ mIn.t1.skill10 < analyzer.threshold_tier1)
        => /\ mOut.analysis.full
           /\ mOut.analysis.tier1_result = mIn.t1
           /\ mOut.analysis.tier2_result = NoTier2
           /\ mOut.analysis.final_score_calculated = None
           /\ mOut.analysis.meets_final_threshold = FALSE
           /\ mOut.analysis.error = ""

\* An analysis returned for a score just below the threshold.
C2_Witness ==
    /\ mOut.status = "returned"
    /\ mIn.t1.kind = "score"
    /\ mIn.t1.skill10 = analyzer.threshold_tier1 - 1
    /\ mOut.analysis.tier1_result = mIn.t1

BothTiersNumeric ==
    /\ mOut.status = "returned"
    /\ mOut.t2calls = 1
    /\ mIn.t2.kind = "dict"
    /\ mIn.t2.e # NotANumber /\ mIn.t2.l # NotANumber /\ mIn.t2.r # NotANumber

\* C3: when both tiers succeed with numeric scores the final score is
\* (skill/10*0.40 + experience*0.25 + location*0.20 + role*0.15)*10 rounded
\* to one decimal: it lies within 0.05 of the exact value, for an integer
\* skill score 10*final = 4*skill + 25*experience + 20*location + 15*role,
\* it depends on nothing but those four inputs, and 72, 8, 9, 7 gives 77.3.
C3_FinalScoreFormula ==
    BothTiersNumeric =>
        LET s == mIn.t1.skill10
            e == mIn.t2.e
            l == mIn.t2.l
            r == mIn.t2.r
            f == mOut.analysis.final_score_calculated
        IN  /\ f # None
            /\ 10 * f[1] - 5 <= 4 * s + 250 * e + 200 * l + 150 * r
            /\ 4 * s + 250 * e + 200 * l + 150 * r < 10 * f[1] + 5
            /\ s % 10 = 0 => f[1] = 4 * (s \div 10) + 25 * e + 20 * l + 15 * r
            /\ (s = 720 /\ e = 8 /\ l = 9 /\ r = 7) => f[1] = 773

\* The example of the specification: 72, 8, 9, 7 scored 77.3.
C3_Witness ==
    /\ BothTiersNumeric
    /\ mIn.t1.skill10 = 720 /\ mIn.t2.e = 8 /\ mIn.t2.l = 9 /\ mIn.t2.r = 7
    /\ mOut.analysis.final_score_calculated = Some(773)

\* C4: in every returned analysis meets_final_threshold is true if and only
\* if the final score is non-null and at least final_threshold; it is false
\* whenever tier 2 was skipped or failed or the score could not be computed.
C4_MeetsIffFinalAtLeastThreshold ==
    mOut.status = "returned" =>
        LET a == mOut.analysis
        IN  /\ a.meets_final_threshold <=>
                  (/\ a.final_score_calculated # None
                   /\ a.final_score_calculated[1] >= analyzer.final_threshold)
            /\ (mOut.t2calls = 0 \/ Tier2Failed(mIn.t2)
                    \/ a.final_score_calculated = None)
                  => ~a.meets_final_threshold

\* A final score exactly at the final threshold, accepted.
C4_Witness ==
    /\ mOut.status = "returned"
    /\ mOut.analysis.final_score_calculated = Some(analyzer.final_threshold)
    /\ mOut.analysis.meets_final_threshold

(***************************************************************************)
(* The run: scrape_roberthalf_jobs of src/roberthalf_scraper.py            *)
(***************************************************************************)
\* MAX_RETRIES = config.get("MAX_RETRIES", 3)
MAX_RETRIES == 3
\* "pagesize": 25 of the search payload, and the 25 of the pagination tests
PageSize == 25

\* The most records the two categories of an API with arbitrary records hold
\* together.
MaxRecs == 2
\* An API of filler records holds at most MaxPages full pages per category.
MaxPages == 2

\* FILTER_STATE = config.get("FILTER_STATE", "TX")
FILTER_STATE == "TX"

\* A raw API record.  unique_job_number "" stands for a missing or empty id;
\* src names the record: the category that served it and its position there.
Job(id, st, rem, country, src) ==
    [unique_job_number |-> id, stateprovince |-> st, remote |-> rem,
     country |-> country, description |-> TRUE, src |-> src]

JobIds == {"", "a", "b"}

\* Where a posting is: in the filter state, in another state, remote in the US.
Places ==
    {[st |-> "TX", remote |-> "no", country |-> "us"],
     [st |-> "CA", remote |-> "no", country |-> "us"],
     [st |-> "CA", remote |-> "Yes", country |-> "US"]}

\* The places the local (FALSE) and the remote (TRUE) search serve.
PlacesOf(cat) ==
    {p \in Places : IF cat THEN p.st = "CA" ELSE p.remote = "no"}

\* The record lists of length n a category can serve.
RecordLists(cat, n) ==
    {[i \in 1 .. n |->
        Job(f[i][1], f[i][2].st, f[i][2].remote, f[i][2].country, <<cat, i>>)] :
     f \in [1 .. n -> JobIds \X PlacesOf(cat)]}

\* A filler record: a posting with id "f", in the filter state (or remote in
\* the US) at odd positions and out of state at even ones.
Filler(cat, i) ==
    IF i % 2 = 1
    THEN Job("f", IF cat THEN "CA" ELSE "TX", IF cat THEN "Yes" ELSE "no",
             IF cat THEN "US" ELSE "us", <<cat, i>>)
    ELSE Job("f", "CA", "no", "us", <<cat, i>>)

FillerList(cat, n) == [i \in 1 .. n |-> Filler(cat, i)]

\* The totals an API of filler records holds: below, at and between page
\* boundaries (0, 12, 25, 37, 50 for two pages).
TotalCases ==
    {k * PageSize + d : k \in 0 .. MaxPages - 1, d \in {0, 12}}
        \cup {MaxPages * PageSize}

\* What the "found" field of a response can be for a category holding t
\* records: t, a value int() rejects, 0 (also the default when the field is
\* missing), or a total larger than what is served.
FoundReplies(t) == {t, NotANumber, 0, t + PageSize}

\* A category holding n arbitrary records and reporting its total truthfully.
ShortCategory(cat, n) ==
    {[found |-> n, jobs |-> js, endless |-> FALSE] : js \in RecordLists(cat, n)}

\* A category holding filler records and reporting any total.
LongCategory(cat) ==
    UNION {{[found |-> f, jobs |-> FillerList(cat, t), endless |-> FALSE] :
               f \in FoundReplies(t)} :
           t \in TotalCases}

ShortApis ==
    UNION {{[c \in BOOLEAN |-> IF c THEN r ELSE l] :
              l \in ShortCategory(FALSE, x[1]), r \in ShortCategory(TRUE, x[2])} :
           x \in {y \in (0 .. MaxRecs) \X (0 .. MaxRecs) : y[1] + y[2] <= MaxRecs}}

\* An API one of whose categories holds filler records and the other none.
LongApis ==
    {[c \in BOOLEAN |-> IF c = cat THEN long ELSE [found |-> 0, jobs |-> <<>>, endless |-> FALSE]] :
     <<cat, long>> \in UNION {{<<c, x>> : x \in LongCategory(c)} : c \in BOOLEAN}}

\* A record the filter removes in either category.
Dropped(cat, i) == Job("f", "CA", "no", "us", <<cat, i>>)

DroppedList(cat, n) == [i \in 1 .. n |-> Dropped(cat, i)]

\* An API whose local category holds MaxPages full pages of records that the
\* filter removes, and whose remote category holds none.
DroppedApis ==
    {[c \in BOOLEAN |->
        IF c THEN [found |-> 0, jobs |-> <<>>, endless |-> FALSE]
        ELSE [found |-> f, jobs |-> DroppedList(FALSE, MaxPages * PageSize),
              endless |-> FALSE]] :
     f \in FoundReplies(MaxPages * PageSize)}

\* The ledger on disk: absent, or the Job IDs of its rows in file order.
CsvFiles == {None, Some(<<>>), Some(<<"a">>)}

\* str.lower() on the values the records carry.
Lower(x) ==
    CASE x = "Yes" -> "yes"
      [] x = "US" -> "us"
      [] OTHER -> x

\* The condition of filter_jobs_by_state for one job.
KeptByFilter(job, state_code) ==
    \/ job.stateprovince = state_code
    \/ (Lower(job.remote) = "yes" /\ Lower(job.country) = "us")

RECURSIVE filter_jobs_by_state(_, _)
filter_jobs_by_state(jobs, state_code) ==
    IF jobs = <<>> THEN <<>>
    ELSE (IF KeptByFilter(Head(jobs), state_code) THEN <<Head(jobs)>> ELSE <<>>)
            \o filter_jobs_by_state(Tail(jobs), state_code)

Min(a, b) == IF a <= b THEN a ELSE b

\* The records the API serves for page n of a category.  An endless category
\* serves its records as a page whatever the page number.
PageOf(cat, n) ==
    IF api[cat].endless THEN api[cat].jobs
    ELSE SubSeq(api[cat].jobs, (n - 1) * PageSize + 1,
                Min(n * PageSize, Len(api[cat].jobs)))

\* `page_number += 1`.  page_number and the per-category page count are kept
\* exactly up to MaxPages + 2, which stands for "MaxPages + 2 or more"; no
\* category that ends is served or announced with that many pages.
NextPageNumber(n) == Min(n + 1, MaxPages + 2)

\* An API one of whose categories serves a full page of records that the
\* filter removes for every page number, with a total that is unparsable,
\* missing (read as 0) or MaxPages + 1 pages; the other category is empty.
EndlessApis ==
    {[c \in BOOLEAN |->
        IF c = cat
        THEN [found |-> f, jobs |-> DroppedList(cat, PageSize), endless |-> TRUE]
        ELSE [found |-> 0, jobs |-> <<>>, endless |-> FALSE]] :
     cat \in BOOLEAN, f \in {NotANumber, 0, (MaxPages + 1) * PageSize}}

\* A parsed response body; empty is the JSON object {}.
Payload(empty, found, jobs) == [empty |-> empty, found |-> found, jobs |-> jobs]

\* response.raise_for_status() raises HTTPError for a 4xx or 5xx status.
RaisesForStatus(status) == 400 <= status /\ status < 600

\* Lines 438-470: what fetch_jobs returns when the request for a page is
\* answered with `answer`: None after a network error, an HTTP error status
\* (401 and 403 included, which are only logged differently) or a body that
\* is not JSON, else the parsed body.
fetch_jobs(answer, page) ==
    IF answer.kind = "error" THEN None
    ELSE IF RaisesForStatus(answer.status) THEN None
    ELSE IF answer.body = "notjson" THEN None
    ELSE IF answer.body = "empty" THEN Some(Payload(TRUE, 0, <<>>))
    ELSE Some(page)

\* The answers a request of the run is checked against.
FetchAnswers ==
    {NetworkError, HttpAnswer("response", 401, "notjson"),
     HttpAnswer("response", 403, "notjson"),
     HttpAnswer("response", 200, "empty"),
     HttpAnswer("response", 200, "page")}

\* The outcomes of one fetch_jobs call: None (an HTTP, network or JSON
\* error), the empty object, or the page.
FetchOutcomes(cat, n) ==
    {fetch_jobs(answer, Payload(FALSE, api[cat].found, PageOf(cat, n))) :
     answer \in FetchAnswers}

\* An API with one local Texas job and no remote job.
OneJobApi ==
    [c \in BOOLEAN |->
        IF c THEN [found |-> 0, jobs |-> <<>>, endless |-> FALSE]
        ELSE [found |-> 1,
              jobs |-> <<Job("a", "TX", "no", "us", <<FALSE, 1>>)>>,
              endless |-> FALSE]]

\* A run of Spec starts without a session file and logs in.
RunSessionFiles == {None}

\* Every API, ledger and test mode is run with session persistence off; the
\* writing of the session file is run against OneJobApi.
Init ==
    /\ analyzer = [candidate_profile |-> TRUE,
                   threshold_tier1 |-> DefaultThresholdTier1,
                   final_threshold |-> DefaultFinalThreshold,
                   llm_debug |-> FALSE]
    /\ MatcherIdle
    /\ RunIdle
    /\ SideIdle
    /\ credentials = TRUE
    /\ CallsIdle
    /\ pc = "start"
    /\ api \in ShortApis \cup LongApis \cup DroppedApis
    /\ session_file \in RunSessionFiles
    /\ SAVE_SESSION \in BOOLEAN
    /\ now = Now0
    /\ runs = 1
    /\ prev_error = ""
    /\ SessionIdle
    /\ csv_file \in CsvFiles
    /\ test_mode \in BOOLEAN
    /\ SAVE_SESSION => (api = OneJobApi /\ csv_file = None /\ ~test_mode)

\* Lines 1361-1370 and 1476-1494: the status the process ends with after a run
\* that ended in `err` ("" when it completed).  Every exception is caught and
\* logged by one of the three except clauses, scrape_roberthalf_jobs returns
\* and the script runs off its end; scrape_jobs.main, whose run_scrapers
\* catches what a scraper raises, returns 0 as well.  A process that is killed
\* ends with the status of the signal.
ExitStatus(err) == IF err = "Killed" THEN 137 ELSE 0

\* Lines 1213-1247: the arguments, and the analyzer built or not.
StartRun ==
    /\ pc = "start"
    /\ \E m \in BOOLEAN, all \in BOOLEAN :
        /\ matching' = m
        /\ analyze_all' = all
    /\ pc' = "session"
    /\ UNCHANGED <<auxVars, sessionVars, analyzer, matcherVars, error, test_mode, api, csv_file,
                   session_info, is_remote, page_number, jobs_found_this_type,
                   total_jobs_api_reported, attempt, response_data,
                   all_filtered_jobs, unique_job_list, duplicates_found,
                   existing_job_ids_csv, new_job_ids, job_index, report,
                   fetch_calls, pages_requested, analyze_log>>

\* The ways through login_and_get_session once the credentials are there:
\* the launch or new_context raises, the page shows a login error, the
\* post-login wait raises, a Playwright timeout, another Playwright error,
\* no cookies, any other exception, or the cookies are returned.
LoginPaths ==
    {"launch_failed", "context_failed", "inline_error", "wait_error",
     "timeout", "automation_error", "no_cookies", "unexpected", "success"}

\* Lines 192-203: `browser` and `context` are set on this path.
BrowserAcquired(path) == path # "launch_failed"

ContextAcquired(path) == path \notin {"launch_failed", "context_failed"}

\* The closing done only before `return cookies, session_user_agent`.
ClosedInFinally_OnSuccessOnly(acquired, path) == acquired /\ path = "success"

\* Lines 280-284: the finally clause closes what was acquired, whatever the
\* path.
ClosedInFinally(acquired, path) == acquired

\* Lines 174-284: login_and_get_session with or without credentials along
\* `path`: the result, whether a browser launch was attempted, and what is
\* open when it returns.
login_and_get_session(creds, path) ==
    IF ~creds
    THEN [result |-> None, launched |-> FALSE, browser_open |-> FALSE,
          context_open |-> FALSE]
    ELSE [result |-> IF path = "success" THEN Some(Session(2, 1)) ELSE None,
          launched |-> TRUE,
          browser_open |-> BrowserAcquired(path)
                             /\ ~ClosedInFinally(BrowserAcquired(path), path),
          context_open |-> ContextAcquired(path)
                             /\ ~ClosedInFinally(ContextAcquired(path), path)]

\* login_and_get_session returns None or (cookies, user_agent): the cookie
\* jar of a new login, and the configured user agent.
LoginResults ==
    {login_and_get_session(TRUE, path).result : path \in LoginPaths}

\* A login whatever was loaded.
NeedsLogin_Always(loaded) == TRUE

\* Line 334: `if loaded_data:` fails.
NeedsLogin(loaded) == loaded = None

\* Lines 333-341 and 1250-1253: get_or_refresh_session calls
\* load_session_data.  A session loaded is returned at once; an exception
\* leaves through the run's `except Exception`; None goes on to the login.
\* An unlink that fails is suppressed (lines 161-162, 169-170).
LoadSession ==
    /\ pc = "session"
    /\ LET r == load_session_data(session_file, SAVE_SESSION, now)
       IN  /\ \E unlinked \in (IF r.unlink THEN BOOLEAN ELSE {FALSE}) :
                session_file' = IF unlinked THEN None ELSE session_file
           /\ last_load' = Some([file |-> session_file, at |-> now,
                                 result |-> r.result, raised |-> r.raised,
                                 unlink |-> r.unlink])
           /\ IF r.raised
              THEN /\ pc' = "aborted"
                   /\ error' = "Unexpected"
                   /\ session_info' = None
                   /\ exit_status' = Some(ExitStatus("Unexpected"))
              ELSE IF ~NeedsLogin(r.result)
              THEN /\ pc' = "fetch"
                   /\ error' = error
                   /\ session_info' = r.result
                   /\ exit_status' = exit_status
              ELSE /\ pc' = "login"
                   /\ error' = error
                   /\ session_info' = None
                   /\ exit_status' = exit_status
    /\ UNCHANGED <<SAVE_SESSION, now, runs, prev_error, persist, login_calls,
                   validate_log, login_result, retrying, probe, llm, otherVars>>
    /\ UNCHANGED <<analyzer, matcherVars, matching, analyze_all, test_mode, api,
                   csv_file, is_remote, page_number, jobs_found_this_type,
                   total_jobs_api_reported, attempt, response_data,
                   all_filtered_jobs, unique_job_list, duplicates_found,
                   existing_job_ids_csv, new_job_ids, job_index, report,
                   fetch_calls, pages_requested, analyze_log>>

\* The run going on to fetch without a session.
AfterLogin_NoCheck(res) == IF res = None THEN "fetch" ELSE "save_session"

\* Lines 345-351 and 1251-1253: where the run goes after the login.
AfterLogin(res) == IF res = None THEN "aborted" ELSE "save_session"

\* Lines 343-351 and 1251-1253: the login.  Without a result
\* get_or_refresh_session returns None and the run raises RuntimeError.
Login ==
    /\ pc = "login"
    /\ login_calls' = login_calls + 1
    /\ \E path \in LoginPaths :
        LET r == login_and_get_session(credentials, path)
            res == r.result
        IN
        /\ browser' = IF r.launched
                       THEN Browser(browser.launches + 1, path, r.browser_open,
                                    r.context_open)
                       ELSE browser
        /\ login_result' = res
        /\ pc' = AfterLogin(res)
        /\ error' = IF AfterLogin(res) = "aborted" THEN "SessionUnavailable"
                     ELSE error
        /\ exit_status' = IF AfterLogin(res) = "aborted"
                           THEN Some(ExitStatus("SessionUnavailable"))
                           ELSE exit_status
    /\ UNCHANGED <<session_file, SAVE_SESSION, now, runs, prev_error,
                   last_load, persist, validate_log, retrying, probe, llm,
                   credentials, sleeps, ledger_log, writers, kdp>>
    /\ UNCHANGED <<analyzer, matcherVars, matching, analyze_all, test_mode, api,
                   csv_file, session_info, is_remote, page_number,
                   jobs_found_this_type, total_jobs_api_reported, attempt,
                   response_data, all_filtered_jobs, unique_job_list,
                   duplicates_found, existing_job_ids_csv, new_job_ids,
                   job_index, report, fetch_calls, pages_requested, analyze_log>>

\* A save that ignores the configuration.
PersistenceOff_Never(save) == FALSE

\* Line 121: `if not SAVE_SESSION:`
PersistenceOff(save) == ~save

\* The history of a save_session_data call: the file before it, the session
\* passed, and how the call went: "disabled", "open" (the file is open for
\* writing), "failed" (the open or the write raised) or "written".
Persist(before, session, outcome) ==
    Some([before |-> before, session |-> session, outcome |-> outcome])

\* Lines 117-131 and 347-348: save_session_data up to open(filename_path,
\* "w"), which truncates the file.  With SAVE_SESSION off, or when the open
\* raises (caught at line 134), the call is over and the session is returned.
SaveSessionOpen ==
    /\ pc = "save_session"
    /\ IF PersistenceOff(SAVE_SESSION)
       THEN /\ persist' = Persist(session_file, login_result[1], "disabled")
            /\ session_file' = session_file
            /\ session_info' = login_result
            /\ pc' = "fetch"
       ELSE \E opened \in BOOLEAN :
              IF opened
              THEN /\ persist' = Persist(session_file, login_result[1], "open")
                   /\ session_file' = Some(EmptyFile)
                   /\ session_info' = session_info
                   /\ pc' = "save_dump"
              ELSE /\ persist' = Persist(session_file, login_result[1], "failed")
                   /\ session_file' = session_file
                   /\ session_info' = login_result
                   /\ pc' = "fetch"
    /\ UNCHANGED <<SAVE_SESSION, now, runs, prev_error, last_load, login_calls,
                   validate_log, login_result, auxVars>>
    /\ UNCHANGED <<analyzer, matcherVars, error, matching, analyze_all,
                   test_mode, api, csv_file, is_remote, page_number,
                   jobs_found_this_type, total_jobs_api_reported, attempt,
                   response_data, all_filtered_jobs, unique_job_list,
                   duplicates_found, existing_job_ids_csv, new_job_ids,
                   job_index, report, fetch_calls, pages_requested, analyze_log>>

\* Lines 132-135 and 348: json.dump writes the record and the file is closed;
\* a write that raises part-way is caught and leaves what was written.  The
\* session is returned either way.
SaveSessionDump ==
    /\ pc = "save_dump"
    /\ \E dumped \in BOOLEAN :
        IF dumped
        THEN /\ session_file' = Some(SessionRecord(login_result[1], now))
             /\ persist' = Persist(persist[1].before, persist[1].session, "written")
        ELSE /\ session_file' = Some(GarbageFile)
             /\ persist' = Persist(persist[1].before, persist[1].session, "failed")
    /\ session_info' = login_result
    /\ pc' = "fetch"
    /\ UNCHANGED <<SAVE_SESSION, now, runs, prev_error, last_load,
                   login_calls, validate_log, login_result, auxVars>>
    /\ UNCHANGED <<analyzer, matcherVars, error, matching, analyze_all,
                   test_mode, api, csv_file, is_remote, page_number,
                   jobs_found_this_type, total_jobs_api_reported, attempt,
                   response_data, all_filtered_jobs, unique_job_list,
                   duplicates_found, existing_job_ids_csv, new_job_ids,
                   job_index, report, fetch_calls, pages_requested, analyze_log>>

\* The process is killed between the open and the end of the session write,
\* or while a page request or a sleep of the fetch loop is under way.
Kill ==
    /\ pc \in {"save_dump", "fetch"}
    /\ pc' = "aborted"
    /\ error' = "Killed"
    /\ exit_status' = Some(ExitStatus("Killed"))
    /\ UNCHANGED <<sessionVars, retrying, probe, llm, otherVars>>
    /\ UNCHANGED <<analyzer, matcherVars, matching, analyze_all, test_mode, api,
                   csv_file, session_info, is_remote, page_number,
                   jobs_found_this_type, total_jobs_api_reported, attempt,
                   response_data, all_filtered_jobs, unique_job_list,
                   duplicates_found, existing_job_ids_csv, new_job_ids,
                   job_index, report, fetch_calls, pages_requested, analyze_log>>

\* The loop written as range(MAX_RETRIES + 2).
RetryLoopContinues_TwoMore(attempts) == attempts < MAX_RETRIES + 2

\* `range(MAX_RETRIES)` has another value after `attempts` iterations.
RetryLoopContinues(attempts) == attempts < MAX_RETRIES

\* One iteration of fetch_with_retry's loop: a fetch_jobs call, which ends
\* the loop with its payload, or a sleep and the next iteration; the loop
\* running out returns None.
FetchJobs ==
    /\ pc = "fetch"
    /\ \E answer \in FetchAnswers :
        LET result == fetch_jobs(answer,
                                 Payload(FALSE, api[is_remote].found,
                                         PageOf(is_remote, page_number)))
        IN
        /\ fetch_calls' = fetch_calls + 1
        /\ pages_requested' =
              IF attempt = 0
              THEN [pages_requested EXCEPT ![is_remote] = NextPageNumber(@)]
              ELSE pages_requested
        /\ IF result # None
           THEN /\ response_data' = result
                /\ attempt' = attempt
                /\ pc' = "fetched"
                /\ retrying' = None
                /\ sleeps' = Some(<<>>)
           ELSE /\ response_data' = None
                /\ attempt' = attempt + 1
                /\ pc' = IF RetryLoopContinues(attempt + 1) THEN "fetch"
                         ELSE "fetched"
                /\ retrying' = IF RetryLoopContinues(attempt + 1)
                               THEN Some(answer) ELSE None
                /\ sleeps' = Some(<<"backoff">>)
    /\ UNCHANGED <<exit_status, probe, llm, credentials, browser, ledger_log,
                   writers, kdp, sessionVars, analyzer, matcherVars, error, matching, analyze_all,
                   test_mode, api, csv_file, session_info, is_remote,
                   page_number, jobs_found_this_type, total_jobs_api_reported,
                   all_filtered_jobs, unique_job_list, duplicates_found,
                   existing_job_ids_csv, new_job_ids, job_index, report,
                   analyze_log>>

\* `not response_data`: None or the empty object.
ResponseFalsy(r) == IF r = None THEN TRUE ELSE r[1].empty

\* The two errors exchanged.
ProbeError_Swapped(valid) ==
    IF valid THEN "SessionInvalid" ELSE "FetchFailed"

\* Lines 1274-1279: the RuntimeError raised after the probe.
ProbeError(valid) ==
    IF valid THEN "FetchFailed" ELSE "SessionInvalid"

\* Lines 1270-1279: the fetch failed; one validation probe, then the run is
\* aborted either way.
FetchFailed ==
    /\ pc = "fetched"
    /\ ResponseFalsy(response_data)
    /\ \E answer \in FetchAnswers :
        LET valid == validate_session(answer)
        IN  /\ validate_log' = Append(validate_log, valid)
            /\ error' = ProbeError(valid)
            /\ exit_status' = Some(ExitStatus(ProbeError(valid)))
    /\ pc' = "aborted"
    /\ UNCHANGED <<session_file, SAVE_SESSION, now, runs, prev_error,
                   last_load, persist, login_calls, login_result, retrying,
                   probe, llm, otherVars>>
    /\ UNCHANGED <<analyzer, matcherVars, matching, analyze_all, test_mode, api,
                   csv_file, session_info, is_remote, page_number,
                   jobs_found_this_type, total_jobs_api_reported, attempt,
                   response_data, all_filtered_jobs, unique_job_list,
                   duplicates_found, existing_job_ids_csv, new_job_ids,
                   job_index, report, fetch_calls, pages_requested, analyze_log>>

\* int(response_data.get("found", 0)), -1 when int() raises.
ParseFound(found) == IF found = NotANumber THEN -1 ELSE found

\* The page count rounded down.
MaxPagesExpected_Floor(found) == found \div 25

\* (jobs_found_this_type + 24) // 25
MaxPagesExpected(found) == (found + 24) \div 25

\* The short-page test made on what the filter kept.
LastPage_FilteredCount(jobs_on_page, found, page) ==
    \/ jobs_on_page = <<>>
    \/ Len(filter_jobs_by_state(jobs_on_page, FILTER_STATE)) < PageSize
    \/ (found >= 0 /\ page >= MaxPagesExpected(found))

\* Lines 1293-1313: the category's loop breaks after this page.
LastPage(jobs_on_page, found, page) ==
    \/ jobs_on_page = <<>>
    \/ Len(jobs_on_page) < PageSize
    \/ (found >= 0 /\ page >= MaxPagesExpected(found))

\* The inter-page sleep taken before the tests that end the category.
SleepAfterPage_BeforeBreak(last, remote) ==
    IF ~last THEN <<"page">>
    ELSE IF ~remote THEN <<"page", "category">>
    ELSE <<"page">>

\* Lines 1315-1323: the sleeps between this page and the next request: the
\* page delay when the loop goes on, the switch delay after the last local
\* page, none after the last remote page.
SleepAfterPage(last, remote) ==
    IF ~last THEN <<"page">>
    ELSE IF ~remote THEN <<"category">>
    ELSE <<>>

\* Lines 1281-1323: a page arrived; record the total, filter and keep the
\* jobs, then go to the next page, the next category or the merge.
ProcessPage ==
    /\ pc = "fetched"
    /\ ~ResponseFalsy(response_data)
    /\ LET data == response_data[1]
           first == jobs_found_this_type = None
           found == IF first THEN ParseFound(data.found)
                    ELSE jobs_found_this_type[1]
           last == LastPage(data.jobs, found, page_number)
       IN  /\ total_jobs_api_reported' =
                 IF first /\ found >= 0 THEN total_jobs_api_reported + found
                 ELSE total_jobs_api_reported
           /\ all_filtered_jobs' =
                 all_filtered_jobs \o filter_jobs_by_state(data.jobs, FILTER_STATE)
           /\ sleeps' = Some(sleeps[1] \o SleepAfterPage(last, is_remote))
           /\ IF ~last
              THEN /\ page_number' = NextPageNumber(page_number)
                   /\ jobs_found_this_type' = Some(found)
                   /\ is_remote' = is_remote
                   /\ pc' = "fetch"
              ELSE IF ~is_remote
              THEN /\ page_number' = 1
                   /\ jobs_found_this_type' = None
                   /\ is_remote' = TRUE
                   /\ pc' = "fetch"
              ELSE /\ page_number' = page_number
                   /\ jobs_found_this_type' = Some(found)
                   /\ is_remote' = is_remote
                   /\ pc' = "merge"
    /\ attempt' = 0
    /\ fetch_calls' = 0
    /\ UNCHANGED <<exit_status, retrying, probe, llm, credentials, browser,
                   ledger_log, writers, kdp, sessionVars, analyzer, matcherVars, error, matching, analyze_all,
                   test_mode, api, csv_file, session_info, response_data,
                   unique_job_list, duplicates_found, existing_job_ids_csv,
                   new_job_ids, job_index, report, pages_requested, analyze_log>>

\* The ids of the jobs of a list.
IdsOf(jobs) == {jobs[i].unique_job_number : i \in 1 .. Len(jobs)}

\* The state of the deduplication loop: unique_jobs_dict as the list of its
\* values in insertion order, and duplicates_found.
DedupState(list, dups) == [list |-> list, dups |-> dups]

\* The loop body where a later record replaces the one kept for its id.
DedupStep_KeepLast(acc, job) ==
    LET id == job.unique_job_number
    IN  IF id = "" THEN acc
        ELSE IF id \notin IdsOf(acc.list)
        THEN DedupState(Append(acc.list, job), acc.dups)
        ELSE DedupState(
               [i \in 1 .. Len(acc.list) |->
                  IF acc.list[i].unique_job_number = id THEN job ELSE acc.list[i]],
               acc.dups + 1)

\* The loop body without the `if job_id` test: records without an id are
\* stored under the empty key.
DedupStep_KeepNoId(acc, job) ==
    LET id == job.unique_job_number
    IN  IF id \notin IdsOf(acc.list)
        THEN DedupState(Append(acc.list, job), acc.dups)
        ELSE DedupState(acc.list, acc.dups + 1)

\* The loop body that compares a record only with the one stored last.
DedupStep_AdjacentOnly(acc, job) ==
    LET id == job.unique_job_number
    IN  IF id = "" THEN acc
        ELSE IF acc.list = <<>>
        THEN DedupState(Append(acc.list, job), acc.dups)
        ELSE IF id # acc.list[Len(acc.list)].unique_job_number
        THEN DedupState(Append(acc.list, job), acc.dups)
        ELSE DedupState(acc.list, acc.dups + 1)

\* Lines 1328-1336: one iteration of the deduplication loop.
DedupStep(acc, job) ==
    LET id == job.unique_job_number
    IN  IF id = "" THEN acc
        ELSE IF id \notin IdsOf(acc.list)
        THEN DedupState(Append(acc.list, job), acc.dups)
        ELSE DedupState(acc.list, acc.dups + 1)

\* Lines 1326-1337: the loop over all_filtered_jobs, started from acc.
RECURSIVE DedupLoop(_, _)
DedupLoop(jobs, acc) ==
    IF jobs = <<>> THEN acc
    ELSE DedupLoop(Tail(jobs), DedupStep(acc, Head(jobs)))

Deduplicate(jobs) == DedupLoop(jobs, DedupState(<<>>, 0))

\* read_existing_job_data: the non-empty Job IDs of the ledger's rows, the
\* empty set when the file is absent.
read_existing_job_data(file) ==
    IF file = None THEN {}
    ELSE {file[1][i] : i \in 1 .. Len(file[1])} \ {""}

\* A row written for every job that has an id.
RECURSIVE RowsToAppend_All(_, _)
RowsToAppend_All(jobs, existing) ==
    IF jobs = <<>> THEN <<>>
    ELSE LET id == Head(jobs).unique_job_number
         IN  IF id # ""
             THEN <<id>> \o RowsToAppend_All(Tail(jobs), existing \cup {id})
             ELSE RowsToAppend_All(Tail(jobs), existing)

\* Lines 1427-1466: the rows append_job_data_to_csv writes: one for each job
\* with an id that is not in existing_job_ids, which grows as rows are
\* written.
RECURSIVE RowsToAppend(_, _)
RowsToAppend(jobs, existing) ==
    IF jobs = <<>> THEN <<>>
    ELSE LET id == Head(jobs).unique_job_number
         IN  IF id # "" /\ id \notin existing
             THEN <<id>> \o RowsToAppend(Tail(jobs), existing \cup {id})
             ELSE RowsToAppend(Tail(jobs), existing)

\* The rows of the ledger file, none when it is absent.
RowsOf(file) == IF file = None THEN <<>> ELSE file[1]

\* The new ids computed from the ledger's ids joined with the current ones.
NewJobIds_Union(jobs, existing) == (IdsOf(jobs) \ {""}) \cup existing

\* Lines 1344-1346: the ids of the unique jobs minus the ledger's.
NewJobIds(jobs, existing) == (IdsOf(jobs) \ {""}) \ existing

\* Lines 1325-1347: deduplicate, read the ledger, compute the new ids.
Merge ==
    /\ pc = "merge"
    /\ LET d == Deduplicate(all_filtered_jobs)
           existing == read_existing_job_data(csv_file)
       IN  /\ unique_job_list' = d.list
           /\ duplicates_found' = d.dups
           /\ existing_job_ids_csv' = existing
           /\ new_job_ids' = NewJobIds(d.list, existing)
    /\ pc' = "save"
    /\ UNCHANGED <<auxVars, sessionVars, analyzer, matcherVars, error, matching, analyze_all,
                   test_mode, api, csv_file, session_info, is_remote,
                   page_number, jobs_found_this_type, total_jobs_api_reported,
                   attempt, response_data, all_filtered_jobs, job_index, report,
                   fetch_calls, pages_requested, analyze_log>>

\* A job of jobs_list once save_job_results has set job["is_new"] and
\* job["match_analysis"] (None or Some(analysis)).
JobEntry(job, new, analysis) ==
    [unique_job_number |-> job.unique_job_number,
     stateprovince |-> job.stateprovince, remote |-> job.remote,
     country |-> job.country, description |-> job.description, src |-> job.src,
     is_new |-> new, match_analysis |-> analysis]

\* The flag set from the whole result set rather than from new_job_ids.
IsNew_AnyCurrent(job, new_ids) == job.unique_job_number # ""

\* Line 971: job["is_new"]
IsNew(job, new_ids) == job.unique_job_number \in new_ids

\* Lines 953-984 and 1006-1011: flag the new jobs; without an analyzer every
\* job gets match_analysis None.
SaveStart ==
    /\ pc = "save"
    /\ unique_job_list' =
          [i \in 1 .. Len(unique_job_list) |->
             JobEntry(unique_job_list[i],
                      IsNew(unique_job_list[i], new_job_ids), None)]
    /\ job_index' = 1
    /\ pc' = IF matching THEN "analyze" ELSE "report"
    /\ UNCHANGED <<auxVars, sessionVars, analyzer, matcherVars, error, matching, analyze_all,
                   test_mode, api, csv_file, session_info, is_remote,
                   page_number, jobs_found_this_type, total_jobs_api_reported,
                   attempt, response_data, all_filtered_jobs, duplicates_found,
                   existing_job_ids_csv, new_job_ids, report, fetch_calls,
                   pages_requested, analyze_log>>

\* The gate without the test_mode term.
ShouldAnalyze_NewOnly(job, tm, all) == job.is_new

\* The gate that lets every job through.
ShouldAnalyze_Always(job, tm, all) == TRUE

\* Line 989: should_analyze
ShouldAnalyze(job, tm, all) == job.is_new \/ tm \/ all

\* The LLM replies the run is checked against.
RunTier1Replies ==
    {Tier1Reply("none", 0), Tier1Reply("badscore", 0),
     Tier1Reply("score", 599), Tier1Reply("score", 720)}

RunTier2Replies ==
    {Tier2Reply("none", 0, 0, 0), Tier2Reply("dict", 8, 9, 7)}

\* Lines 985-1005: one iteration of the evaluation loop; an exception out of
\* analyze_job leaves save_job_results and is caught at line 1365.
AnalyzeNext ==
    /\ pc = "analyze"
    /\ job_index <= Len(unique_job_list)
    /\ LET job == unique_job_list[job_index]
       IN  IF ShouldAnalyze(job, test_mode, analyze_all)
           THEN \E t1 \in RunTier1Replies, t2 \in RunTier2Replies :
                  LET out == analyze_job(analyzer, job.description, t1, t2)
                  IN  /\ analyze_log' =
                            Append(analyze_log,
                                   [job |-> job.unique_job_number,
                                    t1calls |-> out.t1calls,
                                    t2calls |-> out.t2calls,
                                    t1 |-> IF out.t1calls > 0 THEN t1.kind
                                           ELSE "notcalled",
                                    t2 |-> IF out.t2calls > 0 THEN t2.kind
                                           ELSE "notcalled"])
                      /\ IF out.status = "raised"
                         THEN /\ pc' = "aborted"
                              /\ error' = "Unexpected"
                              /\ exit_status' = Some(ExitStatus("Unexpected"))
                              /\ UNCHANGED <<unique_job_list, job_index>>
                         ELSE /\ unique_job_list' =
                                    [unique_job_list EXCEPT ![job_index] =
                                       JobEntry(job, job.is_new, Some(out.analysis))]
                              /\ job_index' = job_index + 1
                              /\ UNCHANGED <<pc, error, exit_status>>
           ELSE /\ unique_job_list' =
                      [unique_job_list EXCEPT ![job_index] =
                         JobEntry(job, job.is_new, None)]
                /\ job_index' = job_index + 1
                /\ UNCHANGED <<pc, error, analyze_log, exit_status>>
    /\ UNCHANGED <<retrying, probe, llm, otherVars, sessionVars, analyzer, matcherVars, matching, analyze_all, test_mode, api,
                   csv_file, session_info, is_remote, page_number,
                   jobs_found_this_type, total_jobs_api_reported, attempt,
                   response_data, all_filtered_jobs, duplicates_found,
                   existing_job_ids_csv, new_job_ids, report, fetch_calls,
                   pages_requested>>

\* The report written as soon as a page has arrived.
ReportDue_WhileFetching(p, index, n) ==
    p \in {"report", "fetched"} \/ (p = "analyze" /\ index > n)

\* save_job_results has reached line 1013: it was entered after the merge
\* (line 1350) and its evaluation loop is over or was skipped.
ReportDue(p, index, n) == p = "report" \/ (p = "analyze" /\ index > n)

\* Lines 1013-1055: the evaluation loop is over (or was skipped); write the
\* JSON and HTML report.  A failed write is logged and the run goes on.
WriteReport ==
    /\ ReportDue(pc, job_index, Len(unique_job_list))
    /\ \E written \in BOOLEAN :
        report' = IF written THEN Some(unique_job_list) ELSE report
    /\ pc' = "append"
    /\ UNCHANGED <<auxVars, sessionVars, analyzer, matcherVars, error, matching, analyze_all,
                   test_mode, api, csv_file, session_info, is_remote,
                   page_number, jobs_found_this_type, total_jobs_api_reported,
                   attempt, response_data, all_filtered_jobs, unique_job_list,
                   duplicates_found, existing_job_ids_csv, new_job_ids,
                   job_index, fetch_calls, pages_requested, analyze_log>>

\* Lines 1359 and 1407-1473: append a row for every job whose id is not in
\* the set read at the start; a failed write is logged.
AppendCsv ==
    /\ pc = "append"
    /\ LET rows == RowsToAppend(unique_job_list, existing_job_ids_csv)
       IN  \E written \in BOOLEAN :
              /\ ledger_log' = LedgerLog(written, ledger_log.flagged)
              /\ IF written
                 THEN /\ csv_file' = Some(RowsOf(csv_file) \o rows)
                      /\ existing_job_ids_csv' =
                            existing_job_ids_csv
                                \cup {rows[i] : i \in 1 .. Len(rows)}
                 ELSE UNCHANGED <<csv_file, existing_job_ids_csv>>
    /\ pc' = "done"
    /\ exit_status' = Some(ExitStatus(error))
    /\ UNCHANGED <<retrying, probe, llm, credentials, browser, sleeps, writers,
                   kdp, sessionVars, analyzer, matcherVars, error, matching, analyze_all,
                   test_mode, api, session_info, is_remote, page_number,
                   jobs_found_this_type, total_jobs_api_reported, attempt,
                   response_data, all_filtered_jobs, unique_job_list,
                   duplicates_found, new_job_ids, job_index, report,
                   fetch_calls, pages_requested, analyze_log>>

Next ==
    \/ StartRun
    \/ LoadSession
    \/ Login
    \/ SaveSessionOpen
    \/ SaveSessionDump
    \/ Kill
    \/ FetchJobs
    \/ FetchFailed
    \/ ProcessPage
    \/ Merge
    \/ SaveStart
    \/ AnalyzeNext
    \/ WriteReport
    \/ AppendCsv

Spec == Init /\ [][Next]_vars

(***************************************************************************)
(* SpecSession: the session record over consecutive runs                   *)
(***************************************************************************)
InitSession ==
    /\ analyzer = [candidate_profile |-> TRUE,
                   threshold_tier1 |-> DefaultThresholdTier1,
                   final_threshold |-> DefaultFinalThreshold,
                   llm_debug |-> FALSE]
    /\ MatcherIdle
    /\ RunIdle
    /\ SideIdle
    /\ credentials = TRUE
    /\ CallsIdle
    /\ pc = "start"
    /\ api = OneJobApi
    /\ csv_file = None
    /\ test_mode = FALSE
    /\ session_file \in SessionFiles
    /\ SAVE_SESSION \in BOOLEAN
    /\ now = Now0
    /\ runs = 1
    /\ prev_error = ""
    /\ SessionIdle

\* The scraper is started again after a run has ended: what is on disk stays,
\* the clock has moved on by nothing or by more than the max age.
NextRun ==
    /\ pc \in {"done", "aborted"}
    /\ runs < MaxRuns
    /\ runs' = runs + 1
    /\ prev_error' = error
    /\ \E d \in {0, SESSION_MAX_AGE_HOURS + 1} : now' = now + d
    /\ pc' = "start"
    /\ error' = ""
    /\ matching' = FALSE
    /\ analyze_all' = FALSE
    /\ session_info' = None
    /\ is_remote' = FALSE
    /\ page_number' = 1
    /\ jobs_found_this_type' = None
    /\ total_jobs_api_reported' = 0
    /\ attempt' = 0
    /\ response_data' = None
    /\ all_filtered_jobs' = <<>>
    /\ unique_job_list' = <<>>
    /\ duplicates_found' = 0
    /\ existing_job_ids_csv' = {}
    /\ new_job_ids' = {}
    /\ job_index' = 0
    /\ report' = None
    /\ fetch_calls' = 0
    /\ pages_requested' = [c \in BOOLEAN |-> 0]
    /\ analyze_log' = <<>>
    /\ last_load' = None
    /\ persist' = None
    /\ login_calls' = 0
    /\ validate_log' = <<>>
    /\ login_result' = None
    /\ exit_status' = None
    /\ browser' = Browser(0, "", FALSE, FALSE)
    /\ sleeps' = None
    /\ ledger_log' =
          LedgerLog(FALSE,
                    ledger_log.flagged
                        \cup (IF pc = "done" /\ ledger_log.written
                              THEN {unique_job_list[i].unique_job_number :
                                      i \in {j \in 1 .. Len(unique_job_list) :
                                               unique_job_list[j].is_new}}
                              ELSE {}))
    /\ UNCHANGED <<analyzer, matcherVars, test_mode, api, csv_file,
                   session_file, SAVE_SESSION, retrying, probe, llm,
                   credentials, writers, kdp>>

NextSession ==
    \/ Next
    \/ NextRun

SpecSession == InitSession /\ [][NextSession]_vars

(***************************************************************************)
(* SpecMerge: the same raw page fed into the merge again and again         *)
(***************************************************************************)
\* The longest raw page fed to the merge.
MaxPageLen == 3
\* How often the page is fed.
MaxFeeds == 2

InitMerge ==
    /\ analyzer = [candidate_profile |-> TRUE,
                   threshold_tier1 |-> DefaultThresholdTier1,
                   final_threshold |-> DefaultFinalThreshold,
                   llm_debug |-> FALSE]
    /\ MatcherIdle
    /\ RunIdle
    /\ SideIdle
    /\ credentials = TRUE
    /\ CallsIdle
    /\ NoSessionFile
    /\ pc = "merge"
    /\ \E n \in 0 .. MaxPageLen :
        \E page \in ShortCategory(FALSE, n) :
            api = [c \in BOOLEAN |-> IF c THEN [found |-> 0, jobs |-> <<>>, endless |-> FALSE]
                                     ELSE page]
    /\ csv_file = None
    /\ test_mode = FALSE

\* Lines 1301-1302 and 1325-1340: the page the API serves is filtered and
\* appended to all_filtered_jobs once more, and the whole is deduplicated.
FeedSamePage ==
    /\ pc = "merge"
    /\ pages_requested[FALSE] < MaxFeeds
    /\ pages_requested' = [pages_requested EXCEPT ![FALSE] = @ + 1]
    /\ LET all == all_filtered_jobs
                    \o filter_jobs_by_state(api[FALSE].jobs, FILTER_STATE)
           d == Deduplicate(all)
       IN  /\ all_filtered_jobs' = all
           /\ unique_job_list' = d.list
           /\ duplicates_found' = d.dups
    /\ UNCHANGED <<auxVars, sessionVars, analyzer, matcherVars, pc, error, matching, analyze_all,
                   test_mode, api, csv_file, session_info, is_remote,
                   page_number, jobs_found_this_type, total_jobs_api_reported,
                   attempt, response_data, existing_job_ids_csv, new_job_ids,
                   job_index, report, fetch_calls, analyze_log>>

NextMerge == FeedSamePage

SpecMerge == InitMerge /\ [][NextMerge]_vars

(***************************************************************************)
(* Properties of the run (checked under Spec)                              *)
(***************************************************************************)
\* save_job_results has flagged the jobs: every job carries is_new.
Flagged ==
    \/ pc \in {"analyze", "report", "append", "done"}
    \/ (pc = "aborted" /\ error = "Unexpected")

JobPositions == 1 .. Len(unique_job_list)

\* analyze_job was called for the job at position i.
Called(i) ==
    \E k \in 1 .. Len(analyze_log) :
        analyze_log[k].job = unique_job_list[i].unique_job_number

\* The evaluation loop has finished its iteration for position i.
Evaluated(i) ==
    /\ pc \in {"analyze", "append", "done", "aborted"}
    /\ i < job_index

\* C5: with the analyzer active, save_job_results calls analyze_job for a job
\* if and only if is_new OR test_mode OR analyze_all holds for it, once; a job
\* that is not eligible keeps match_analysis null to the end of the run and
\* causes no LLM call.  Without an analyzer nothing is analysed.
C5_AnalyzedIffEligible ==
    Flagged =>
        /\ \A i \in JobPositions :
             LET job == unique_job_list[i]
                 eligible == job.is_new \/ test_mode \/ analyze_all
             IN  /\ Called(i) => (matching /\ eligible)
                 /\ (matching /\ Evaluated(i) /\ eligible)
                        => (Called(i) /\ job.match_analysis # None)
                 /\ ~eligible => (job.match_analysis = None /\ ~Called(i))
        /\ \A k, m \in 1 .. Len(analyze_log) :
             analyze_log[k].job = analyze_log[m].job => k = m
        /\ ~matching => analyze_log = <<>>

\* A finished run without test_mode or analyze_all in which a new job was
\* analysed and a known one was not.
C5_Witness ==
    /\ pc = "done" /\ matching /\ ~test_mode /\ ~analyze_all
    /\ \E i, j \in JobPositions :
         /\ unique_job_list[i].is_new /\ Called(i)
         /\ unique_job_list[i].match_analysis # None
         /\ ~unique_job_list[j].is_new /\ ~Called(j)
         /\ unique_job_list[j].match_analysis = None

\* C6: for one page fetch_with_retry makes at most MAX_RETRIES + 1 calls of
\* fetch_jobs before it signals failure, and the call that returns a payload
\* is its last: every call before it returned None.
C6_RetryBound ==
    /\ fetch_calls <= MAX_RETRIES + 1
    /\ (pc = "fetched" /\ response_data # None) => fetch_calls = attempt + 1
    /\ (pc = "fetched" /\ response_data = None) => fetch_calls = attempt

\* fetch_with_retry signalled failure after using up its attempts.
C6_Witness ==
    /\ pc = "fetched"
    /\ response_data = None
    /\ fetch_calls = MAX_RETRIES

\* The fetch loop of category cat has ended.
CategoryDone(cat) ==
    \/ pc \in {"merge", "save", "analyze", "report", "append", "done"}
    \/ (pc = "aborted" /\ error = "Unexpected")
    \/ (~cat /\ is_remote)

\* The API reports for cat the number of records it serves.
Truthful(cat) == api[cat].found = Len(api[cat].jobs)

\* C7: against an API that reports found = T and serves T records in pages
\* of 25, the category's loop requests exactly max(1, ceil(T/25)) pages and
\* stops (never more while it runs); with found = 37 that is 2 pages.
C7_PagesRequested ==
    \A cat \in BOOLEAN :
        Truthful(cat) =>
            LET t == api[cat].found
                k == pages_requested[cat]
            IN  /\ CategoryDone(cat) =>
                      /\ t = 0 => k = 1
                      /\ t > 0 => (PageSize * (k - 1) < t /\ t <= PageSize * k)
                      /\ t = 37 => k = 2
                /\ t > 0 => PageSize * (k - 1) < t
                /\ t = 0 => k <= 1

\* The local loop ended after 2 pages against found = 37.
C7_Witness ==
    /\ Truthful(FALSE)
    /\ api[FALSE].found = 37
    /\ CategoryDone(FALSE)
    /\ pages_requested[FALSE] = 2

Merged ==
    \/ pc \in {"save", "analyze", "report", "append", "done"}
    \/ (pc = "aborted" /\ error = "Unexpected")

\* Record x was fetched before record y: local before remote, and in the
\* order served within a category.
FetchedBefore(x, y) ==
    \/ (~x.src[1] /\ y.src[1])
    \/ (x.src[1] = y.src[1] /\ x.src[2] < y.src[2])

\* C9: after the merge no two jobs of the result set share an id, every job
\* has an id, every id fetched is in the set, the record kept for an id is its
\* first occurrence in local-then-remote fetch order, and duplicates_found
\* is the number of id-bearing records minus the number of unique ids.
C9_MergeUniqueFirstOccurrence ==
    Merged =>
        LET all == all_filtered_jobs
            bearing == {k \in 1 .. Len(all) : all[k].unique_job_number # ""}
        IN  /\ \A i, j \in JobPositions :
                 unique_job_list[i].unique_job_number
                    = unique_job_list[j].unique_job_number => i = j
            /\ \A i \in JobPositions : unique_job_list[i].unique_job_number # ""
            /\ IdsOf(unique_job_list) = {all[k].unique_job_number : k \in bearing}
            /\ \A i \in JobPositions :
                 /\ \E k \in bearing : all[k].src = unique_job_list[i].src
                 /\ \A k \in bearing :
                      all[k].unique_job_number
                            = unique_job_list[i].unique_job_number
                         => \/ all[k].src = unique_job_list[i].src
                            \/ FetchedBefore(unique_job_list[i], all[k])
            /\ duplicates_found = Cardinality(bearing) - Len(unique_job_list)

\* A local record kept over a remote record with the same id.
C9_Witness ==
    /\ pc = "save"
    /\ duplicates_found = 1
    /\ \E i \in JobPositions :
         /\ ~unique_job_list[i].src[1]
         /\ \E k \in 1 .. Len(all_filtered_jobs) :
              /\ all_filtered_jobs[k].src[1]
              /\ all_filtered_jobs[k].unique_job_number
                    = unique_job_list[i].unique_job_number

(***************************************************************************)
(* Properties of the merge (checked under SpecMerge)                       *)
(***************************************************************************)
\* C10: deduplication is idempotent: once a raw page has been merged, merging
\* the same page again leaves the set and the count of unique ids unchanged.
C10_DedupIdempotent ==
    [][pages_requested[FALSE] >= 1 =>
          /\ IdsOf(unique_job_list') = IdsOf(unique_job_list)
          /\ Len(unique_job_list') = Len(unique_job_list)]_vars

\* A page with two different ids merged twice.
C10_Witness ==
    /\ pages_requested[FALSE] = 2
    /\ Len(unique_job_list) = 2
    /\ duplicates_found >= 2

(***************************************************************************)
(* Properties of the session record (checked under SpecSession)            *)
(***************************************************************************)
\* load_session_data has been called in this run.
Loaded == last_load # None

\* The content has all three fields, none of them empty.
Complete(c) ==
    /\ c.kind = "object"
    /\ c.cookies # 0
    /\ c.user_agent # 0
    /\ c.ts_kind # "missing"

\* The content carries a date that is at most the max age old at hour t.
Fresh(c, t) ==
    /\ c.ts_kind = "iso"
    /\ t - c.timestamp <= SESSION_MAX_AGE_HOURS

\* C11: with persistence enabled, load_session_data returns a session if and
\* only if a record exists, its three fields are present and non-empty, and
\* now - timestamp <= SESSION_MAX_AGE_HOURS; the session returned is the
\* record's.  A well-formed record older than the max age is rejected, one
\* exactly at the max age is accepted.
C11_LoadIffCompleteAndFresh ==
    (SAVE_SESSION /\ Loaded) =>
        LET l == last_load[1]
            usable == IF l.file = None THEN FALSE
                      ELSE Complete(l.file[1]) /\ Fresh(l.file[1], l.at)
        IN  /\ (l.result # None) <=> usable
            /\ usable => l.result
                           = Some(Session(l.file[1].cookies, l.file[1].user_agent))

\* A record exactly at the max age was accepted.
C11_Witness ==
    /\ SAVE_SESSION /\ Loaded
    /\ last_load[1].result # None
    /\ last_load[1].at - last_load[1].file[1].timestamp = SESSION_MAX_AGE_HOURS

\* C12: whenever load_session_data returns absent for a record that exists on
\* disk, the record has been deleted (or its unlink was tried and raised).
C12_AbsentRecordDeleted ==
    (SAVE_SESSION /\ Loaded /\ pc = "login") =>
        (last_load[1].file # None =>
            (session_file = None \/ last_load[1].unlink))

\* C13: load_session_data never fails the run: whatever the file holds, a
\* call that returns no session returns absent and the run goes on to the
\* login as if no file existed.
C13_LoadNeverFatal ==
    (Loaded /\ last_load[1].result = None) =>
        /\ ~last_load[1].raised
        /\ ~(pc = "aborted" /\ login_calls = 0)

\* C14: when load_session_data returns a session, get_or_refresh_session
\* returns exactly that session, without a login, a save or a validation
\* probe, and the record on disk is as it was.
C14_LoadedSessionReturnedAsIs ==
    (Loaded /\ last_load[1].result # None) =>
        /\ session_info = last_load[1].result
        /\ login_calls = 0
        /\ persist = None
        /\ session_file = last_load[1].file
        /\ (pc = "fetch" /\ fetch_calls = 0 /\ ~is_remote /\ page_number = 1)
              => validate_log = <<>>
        /\ validate_log # <<>> => ResponseFalsy(response_data)

\* A run fetching with a session loaded from disk.
C14_Witness ==
    /\ Loaded
    /\ last_load[1].result # None
    /\ pc = "fetch"
    /\ session_info = last_load[1].result

\* get_or_refresh_session has returned a session that came from a login.
ReturnedFromLogin ==
    /\ Loaded
    /\ last_load[1].result = None
    /\ session_info # None

NothingFetchedOrWritten ==
    /\ fetch_calls = 0
    /\ pages_requested = [c \in BOOLEAN |-> 0]
    /\ response_data = None
    /\ report = None
    /\ existing_job_ids_csv = {}

\* C16: if no session can be loaded and the login fails, the run ends in the
\* session-unavailable error: no page is fetched, save_session_data is not
\* called, and the session file, the report and the ledger stay as they are
\* for the rest of the run.
C16_NoSessionIsFatal ==
    /\ [](/\ (login_calls = 1 /\ login_result = None) =>
                (pc = "aborted" /\ error = "SessionUnavailable")
          /\ error = "SessionUnavailable" =>
                /\ pc = "aborted"
                /\ Loaded /\ last_load[1].result = None
                /\ login_calls = 1 /\ login_result = None
                /\ session_info = None
                /\ persist = None
                /\ session_file \in {last_load[1].file, None}
                /\ NothingFetchedOrWritten)
    /\ [][(error = "SessionUnavailable" /\ runs' = runs) =>
             UNCHANGED <<pc, csv_file, report, session_file, fetch_calls,
                         pages_requested>>]_vars

\* A run ended by a failed login.
C16_Witness ==
    /\ pc = "aborted"
    /\ error = "SessionUnavailable"
    /\ login_calls = 1

\* C17: with persistence disabled save_session_data is a no-op: the session
\* file, present or absent, is what it was before the call.
C17_DisabledSaveIsNoOp ==
    (persist # None /\ ~SAVE_SESSION) =>
        /\ persist[1].outcome = "disabled"
        /\ session_file = persist[1].before

\* save_session_data was called with persistence disabled and a file on disk.
C17_Witness ==
    /\ persist # None
    /\ ~SAVE_SESSION
    /\ session_file # None
    /\ session_info # None

\* C18: at every point of a save_session_data call, a kill included, the
\* session file is the complete previous record or the complete new one.
C18_AtomicOverwrite ==
    (persist # None /\ SAVE_SESSION) =>
        \/ session_file = persist[1].before
        \/ session_file = Some(SessionRecord(persist[1].session, now))

\* C19: when fetch_with_retry returns None the run makes exactly one
\* validation probe and aborts, with the session-invalid error if the probe
\* fails and the fetch-failed error if it succeeds; an aborted run requests
\* no further page.
C19_ProbeOnceThenAbort ==
    /\ [](/\ validate_log # <<>> =>
                /\ Len(validate_log) = 1
                /\ pc = "aborted"
                /\ ResponseFalsy(response_data)
                /\ error = (IF validate_log[1] THEN "FetchFailed"
                            ELSE "SessionInvalid")
          /\ error \in {"FetchFailed", "SessionInvalid"} => validate_log # <<>>)
    /\ [][/\ (pc = "fetched" /\ response_data = None) =>
                (pc' = "aborted" /\ Len(validate_log') = 1)
          /\ (pc = "aborted" /\ runs' = runs) =>
                UNCHANGED <<pc, fetch_calls, pages_requested, validate_log>>]_vars

\* A run aborted with the session-invalid error after the retries ran out.
C19_Witness ==
    /\ pc = "aborted"
    /\ error = "SessionInvalid"
    /\ response_data = None
    /\ fetch_calls = MAX_RETRIES
    /\ validate_log = <<FALSE>>

\* C20: the run after one that was aborted with the session-invalid error
\* logs in again instead of using the persisted session.
C20_ReauthAfterInvalid ==
    (runs > 1 /\ prev_error = "SessionInvalid" /\ session_info # None) =>
        login_calls = 1

(***************************************************************************)
(* SpecFetch: the run against an API that never serves a short page        *)
(***************************************************************************)
InitFetch ==
    /\ analyzer = [candidate_profile |-> TRUE,
                   threshold_tier1 |-> DefaultThresholdTier1,
                   final_threshold |-> DefaultFinalThreshold,
                   llm_debug |-> FALSE]
    /\ MatcherIdle
    /\ RunIdle
    /\ SideIdle
    /\ credentials = TRUE
    /\ CallsIdle
    /\ pc = "start"
    /\ api \in {OneJobApi} \cup EndlessApis
    /\ csv_file = None
    /\ test_mode = FALSE
    /\ session_file = None
    /\ SAVE_SESSION \in BOOLEAN
    /\ now = Now0
    /\ runs = 1
    /\ prev_error = ""
    /\ SessionIdle

\* Every request returns and every sleep ends: a run that can take a step
\* takes one.
SpecFetch == InitFetch /\ [][Next]_vars /\ WF_vars(Next)

\* The fetch state machine of a category is in Fetching.
Fetching(cat) == pc \in {"fetch", "fetched"} /\ is_remote = cat

\* C31: for each category the fetch state machine leaves Fetching (for Done
\* or Failed) whatever the API answers, also when the total is missing,
\* unparsable or too large and every page is full.
C31_FetchingEnds ==
    \A cat \in BOOLEAN : Fetching(cat) ~> ~Fetching(cat)

(***************************************************************************)
(* SpecProbe: validate_session and a page fetch answered the same way      *)
(***************************************************************************)
\* The sessions probed: two cookie jars under the configured user agent.
ProbedSessions == {Session(1, 1), Session(2, 1)}

InitProbe ==
    /\ analyzer = [candidate_profile |-> TRUE,
                   threshold_tier1 |-> DefaultThresholdTier1,
                   final_threshold |-> DefaultFinalThreshold,
                   llm_debug |-> FALSE]
    /\ MatcherIdle
    /\ RunIdle
    /\ SideIdle
    /\ credentials = TRUE
    /\ NoSessionFile
    /\ pc = "start"
    /\ api = OneJobApi
    /\ csv_file = None
    /\ test_mode = FALSE
    /\ llm = LLMIdle
    /\ \E session \in ProbedSessions, answer \in HttpAnswers :
          probe = Probe("start", session, answer, FALSE, None)

\* Lines 287-328: validate_session(cookies_list, user_agent).
ValidateSession ==
    /\ probe.stage = "start"
    /\ probe' = Probe("probed", probe.session, probe.answer,
                      validate_session(probe.answer), None)
    /\ UNCHANGED <<analyzer, matcherVars, runVars, sessionVars, exit_status,
                   retrying, llm, otherVars>>

\* Lines 1267-1269: fetch_with_retry for the first local page with the same
\* session, every request of which is answered as the probe was.
FetchAfterProbe ==
    /\ probe.stage = "probed"
    /\ probe' = Probe("fetched", probe.session, probe.answer, probe.valid,
                      fetch_jobs(probe.answer,
                                 Payload(FALSE, api[FALSE].found,
                                         PageOf(FALSE, 1))))
    /\ UNCHANGED <<analyzer, matcherVars, runVars, sessionVars, exit_status,
                   retrying, llm, otherVars>>

NextProbe ==
    \/ ValidateSession
    \/ FetchAfterProbe

SpecProbe == InitProbe /\ [][NextProbe]_vars

(***************************************************************************)
(* Properties of the exit status, the probe and the failure classes        *)
(***************************************************************************)
\* C21: a run that ends in SessionUnavailable, SessionInvalid or FetchFailed
\* ends the process with a non-zero exit status, and a run that completes
\* ends it with status zero.
C21_FailedRunExitsNonZero ==
    exit_status # None =>
        /\ (error \in {"SessionUnavailable", "SessionInvalid", "FetchFailed"}
               => exit_status[1] # 0)
        /\ (pc = "done" => exit_status[1] = 0)

Probed == probe.stage \in {"probed", "fetched"}

Is2xx(answer) ==
    answer.kind = "response" /\ answer.status \in 200 .. 299

\* C22: validate_session returns true if and only if the probe request
\* completes with a 2xx status and a body that parses as JSON, whatever the
\* payload is; a network error, a status outside 2xx and a body that is not
\* JSON each give false.
C22_ValidIff2xxAndJson ==
    Probed =>
        /\ (probe.answer.kind = "error" => ~probe.valid)
        /\ (probe.answer.kind = "response" /\ ~Is2xx(probe.answer)
               => ~probe.valid)
        /\ (probe.answer.body = "notjson" => ~probe.valid)
        /\ (Is2xx(probe.answer) /\ probe.answer.body \in {"page", "empty"}
               => probe.valid)

\* A probe answered 299 with the empty object is valid.
C22_Witness ==
    /\ Probed
    /\ probe.valid
    /\ probe.answer.status = 299
    /\ probe.answer.body = "empty"

\* C23: if validate_session returned true for a session, a page fetch with
\* that session that the API answers as it answered the probe is accepted by
\* the orchestration loop as a page (`not response_data` is false).
C23_ValidSessionFetches ==
    (probe.stage = "fetched" /\ probe.valid /\ probe.answer.kind = "response")
        => ~ResponseFalsy(probe.response)

\* The step is an analyze_job call of the evaluation loop, and the entry it
\* logs.
AnalyzeCall == pc = "analyze" /\ Len(analyze_log') = Len(analyze_log) + 1

LastCall == analyze_log'[Len(analyze_log')]

\* The analysis the step stored on the job it was at.
StoredAnalysis == unique_job_list'[job_index].match_analysis

LoopGoesOn == pc' = "analyze" /\ job_index' = job_index + 1

\* C24: an LLM tier that failed (its call returned null) never aborts the
\* run: analyze_job returns an analysis with an error marker, the loop of
\* save_job_results goes on to the next job, and after the loop the report
\* is written.
C24_FailedTierNeverAborts ==
    /\ []((pc = "aborted" /\ error = "Unexpected" /\ analyze_log # <<>>) =>
            LET e == analyze_log[Len(analyze_log)]
            IN  e.t1 # "none" /\ e.t2 # "none")
    /\ [][(AnalyzeCall /\ (LastCall.t1 = "none" \/ LastCall.t2 = "none")) =>
            /\ LoopGoesOn
            /\ StoredAnalysis # None
            /\ StoredAnalysis[1].error # ""]_vars
    /\ [][(pc = "analyze" /\ job_index > Len(unique_job_list)) =>
            pc' = "append"]_vars

\* Tier 1 failed for the first of two jobs; the second was analysed and the
\* report holds the error marker.
C24_Witness ==
    /\ pc = "done"
    /\ Len(analyze_log) = 2
    /\ analyze_log[1].t1 = "none"
    /\ report # None
    /\ report[1][1].match_analysis # None
    /\ report[1][1].match_analysis[1].error = "Tier 1 analysis failed"

\* C25: a tier-1 response whose skill_score is not a number fails only that
\* job's analysis: analyze_job returns a record with final_score_calculated
\* null and meets_final_threshold false, and the run continues with the next
\* job.
C25_MalformedFieldsFailOnlyTheJob ==
    [][(AnalyzeCall /\ LastCall.t1 = "badscore") =>
        /\ LoopGoesOn
        /\ StoredAnalysis # None
        /\ StoredAnalysis[1].final_score_calculated = None
        /\ ~StoredAnalysis[1].meets_final_threshold]_vars

\* C29: when tier 2 fails after tier 1 passed its threshold, the analysis
\* keeps the tier-1 result, has no tier-2 result, no final score and
\* meets_final_threshold false, carries the tier-2 error, and the run goes on.
C29_Tier2FailureRecorded ==
    [][(AnalyzeCall /\ LastCall.t1 = "score" /\ LastCall.t2 = "none") =>
        /\ LoopGoesOn
        /\ StoredAnalysis # None
        /\ StoredAnalysis[1].tier1_result.kind = "score"
        /\ StoredAnalysis[1].tier1_result.skill10 >= analyzer.threshold_tier1
        /\ StoredAnalysis[1].tier2_result = NoTier2
        /\ StoredAnalysis[1].final_score_calculated = None
        /\ ~StoredAnalysis[1].meets_final_threshold
        /\ StoredAnalysis[1].error = "Tier 2 analysis failed"]_vars

\* A completed run one of whose jobs passed tier 1 with 72.0 and has the
\* tier-2 failure recorded.
C29_Witness ==
    /\ pc = "done"
    /\ \E i \in 1 .. Len(unique_job_list) :
        /\ unique_job_list[i].match_analysis # None
        /\ unique_job_list[i].match_analysis[1].error = "Tier 2 analysis failed"
        /\ unique_job_list[i].match_analysis[1].tier1_result.skill10 = 720

\* C26: a page fetch answered with HTTP 401 or 403 is not retried:
\* fetch_with_retry does not issue the request again.
C26_AuthErrorNotRetried ==
    [][(retrying # None /\ retrying[1].status \in {401, 403}) =>
        fetch_calls' <= fetch_calls]_vars

\* The step handles a page that arrived, and what the page and the total
\* known for the category are.
PageHandled == pc = "fetched" /\ pc' # "aborted"

RawCount == Len(response_data[1].jobs)

ReportedTotal ==
    IF jobs_found_this_type # None THEN jobs_found_this_type[1]
    ELSE IF response_data[1].found = NotANumber THEN -1
    ELSE response_data[1].found

GoesToNextPage ==
    /\ pc' = "fetch"
    /\ is_remote' = is_remote
    /\ page_number' = page_number + 1

\* C30: after page N of a category the loop goes on to page N+1 if and only
\* if the page held exactly 25 raw records and N < ceil(total / 25), or the
\* total could not be parsed; the count is taken before the filter.
C30_NextPageIffFullAndBelowTotal ==
    [][PageHandled =>
        (GoesToNextPage <=>
            /\ RawCount = PageSize
            /\ (ReportedTotal = -1 \/ page_number * PageSize < ReportedTotal))]_vars

\* Page 2 of the local search is about to be requested after a first page
\* of 25 records none of which passed the filter.
C30_Witness ==
    /\ pc = "fetch"
    /\ ~is_remote
    /\ page_number = 2
    /\ attempt = 0
    /\ pages_requested[FALSE] = 1
    /\ Len(api[FALSE].jobs) >= PageSize
    /\ all_filtered_jobs = <<>>

(***************************************************************************)
(* SpecLLM: one _call_openai_api call                                      *)
(***************************************************************************)
InitLLM ==
    /\ analyzer = [candidate_profile |-> TRUE,
                   threshold_tier1 |-> DefaultThresholdTier1,
                   final_threshold |-> DefaultFinalThreshold,
                   llm_debug |-> FALSE]
    /\ MatcherIdle
    /\ RunIdle
    /\ SideIdle
    /\ credentials = TRUE
    /\ NoSessionFile
    /\ pc = "start"
    /\ api = OneJobApi
    /\ csv_file = None
    /\ test_mode = FALSE
    /\ probe = ProbeIdle
    /\ llm = LLMCall("loop", 0, <<>>, None)

\* Lines 162-216: one iteration of the loop: attempt += 1, the request, and
\* what its outcome leads to.  Only a parsed response is returned.
LLMRequest ==
    /\ llm.stage = "loop"
    /\ \E outcome \in LLMOutcomes :
        LET n == llm.attempt + 1
        IN  llm' = LLMCall(LLMAfter(n, outcome), n,
                           Append(llm.outcomes, outcome),
                           IF outcome = "success" THEN Some("parsed") ELSE None)
    /\ UNCHANGED <<analyzer, matcherVars, runVars, sessionVars, exit_status,
                   retrying, probe, otherVars>>

NextLLM == LLMRequest

\* The sleeps between the requests are finite: an iteration that can be made
\* is made.
SpecLLM == InitLLM /\ [][NextLLM]_vars /\ WF_vars(LLMRequest)

\* C27: whatever the outcomes of its requests, one _call_openai_api call
\* issues at most max_retries + 1 requests and then terminates, returning the
\* parsed result of a successful last request and null otherwise.
C27_BoundedRequests ==
    /\ [](/\ Len(llm.outcomes) <= max_retries + 1
          /\ llm.attempt = Len(llm.outcomes)
          /\ (llm.stage = "returned" =>
                llm.result = IF llm.outcomes[Len(llm.outcomes)] = "success"
                             THEN Some("parsed") ELSE None))
    /\ <>(llm.stage = "returned")

\* Two transient errors and then a success: three requests, the result
\* returned.
C27_Witness ==
    /\ llm.stage = "returned"
    /\ Len(llm.outcomes) = max_retries + 1
    /\ llm.outcomes[1] \in TransientErrors
    /\ llm.result = Some("parsed")

\* The positions of the malformed-JSON responses of the call.
MalformedAt == {k \in 1 .. Len(llm.outcomes) : llm.outcomes[k] = "malformed"}

\* C28: within one call the first malformed-JSON response is followed by a
\* further request whenever the attempt bound allows one, whatever the
\* earlier attempts returned, and a second malformed-JSON response ends the
\* call with null.
C28_ParseFailureRetriedOnce ==
    (llm.stage = "returned" /\ MalformedAt # {}) =>
        LET first == CHOOSE k \in MalformedAt : \A j \in MalformedAt : k <= j
        IN  /\ (first <= max_retries => Len(llm.outcomes) > first)
            /\ \A k \in MalformedAt \ {first} :
                  k = Len(llm.outcomes) /\ llm.result = None

(***************************************************************************)
(* SpecConfig: runs with and without the credentials in the configuration  *)
(***************************************************************************)
\* Lines 181-185: ROBERTHALF_USERNAME and ROBERTHALF_PASSWORD are both set,
\* or one of them is missing.  The session file is absent, a complete record
\* written an hour ago, or one older than the max age.
InitConfig ==
    /\ analyzer = [candidate_profile |-> TRUE,
                   threshold_tier1 |-> DefaultThresholdTier1,
                   final_threshold |-> DefaultFinalThreshold,
                   llm_debug |-> FALSE]
    /\ MatcherIdle
    /\ RunIdle
    /\ SideIdle
    /\ credentials \in BOOLEAN
    /\ CallsIdle
    /\ pc = "start"
    /\ api = OneJobApi
    /\ csv_file = None
    /\ test_mode = FALSE
    /\ session_file \in
          {None,
           Some(SessionRecord(Session(1, 1), Now0 - 1)),
           Some(SessionRecord(Session(1, 1), Now0 - SESSION_MAX_AGE_HOURS - 1))}
    /\ SAVE_SESSION = TRUE
    /\ now = Now0
    /\ runs = 1
    /\ prev_error = ""
    /\ SessionIdle

SpecConfig == InitConfig /\ [][Next]_vars

\* C32: when the credentials are missing, the run makes no page fetch, no
\* validation probe and no browser launch, whether or not a persisted
\* session exists.
C32_NoNetworkWithoutCredentials ==
    ~credentials =>
        /\ fetch_calls = 0
        /\ \A cat \in BOOLEAN : pages_requested[cat] = 0
        /\ validate_log = <<>>
        /\ browser.launches = 0

PastMerge == pc \in {"analyze", "report", "append"}

\* C33: the report and the ledger change only in steps taken after the
\* pagination of both categories and the merge; a run that was aborted or
\* killed before has left both as they were.
C33_OutputsOnlyAfterMerge ==
    /\ [](PastMerge => /\ is_remote
                       /\ \A cat \in BOOLEAN : pages_requested[cat] >= 1)
    /\ [][(report' # report \/ csv_file' # csv_file) => PastMerge]_vars
    /\ []((pc = "aborted" /\ exit_status # None /\ unique_job_list = <<>>)
              => report = None)

\* A run killed while fetching, with a ledger on disk that still holds its
\* one row and no report written.
C33_Witness ==
    /\ pc = "aborted"
    /\ error = "Killed"
    /\ pages_requested[FALSE] >= 1
    /\ report = None
    /\ csv_file = Some(<<"a">>)

\* C35: in every analysis analyze_job returns, final_score_calculated is
\* null or lies within [0, 100] (0 .. 1000 in tenths).
C35_FinalScoreWithin0And100 ==
    (mOut.status = "returned" /\ mOut.analysis.final_score_calculated # None)
        => /\ mOut.analysis.final_score_calculated[1] >= 0
           /\ mOut.analysis.final_score_calculated[1] <= 1000

\* This step sends a page request (a fetch_jobs call).
PageRequested == fetch_calls' = fetch_calls + 1

\* This step sends the validation probe, a request to the same servlet.
ProbeRequested == validate_log' # validate_log

\* A sleep was taken since the request before, if there was one.
SleptSinceLastRequest == sleeps = None \/ sleeps[1] # <<>>

\* The sleeps expected before the page request that is about to be sent:
\* the backoff before another attempt of the same page, the page delay before
\* a further page, the category delay before the first remote page, nothing
\* before the first request of the run.
SleepsBeforeRequest ==
    IF attempt > 0 THEN Some(<<"backoff">>)
    ELSE IF page_number > 1 THEN Some(<<"page">>)
    ELSE IF is_remote THEN Some(<<"category">>)
    ELSE None

RecordSize(session) == session.cookies

\* The length of what the file holds: nothing, a record, or text longer than
\* any record.
FileSize(content) ==
    IF content.kind = "empty" THEN 0
    ELSE IF content.kind = "object" THEN content.cookies
    ELSE 4

\* Lines 131-132: the text of the record is written from offset 0 of a
\* descriptor opened without O_APPEND: it replaces the first bytes of the
\* file and leaves what lies beyond its end, which after a longer text of
\* another process is no JSON.
Overwrite(content, session, t) ==
    IF FileSize(content) <= RecordSize(session)
    THEN SessionRecord(session, t)
    ELSE GarbageFile

\* The sessions two concurrent runs obtained: cookie jars of one, two or
\* three cookies under the configured user agent.
InitConcurrent ==
    /\ analyzer = [candidate_profile |-> TRUE,
                   threshold_tier1 |-> DefaultThresholdTier1,
                   final_threshold |-> DefaultFinalThreshold,
                   llm_debug |-> FALSE]
    /\ MatcherIdle
    /\ RunIdle
    /\ credentials = TRUE
    /\ CallsIdle
    /\ kdp = Kdp("idle", {}, {}, <<>>, <<>>, {})
    /\ pc = "start"
    /\ api = OneJobApi
    /\ csv_file = None
    /\ test_mode = FALSE
    /\ session_file \in {None, Some(GarbageFile),
                          Some(SessionRecord(Session(1, 1), Now0 - 1))}
    /\ SAVE_SESSION = TRUE
    /\ now = Now0
    /\ runs = 1
    /\ prev_error = ""
    /\ SessionIdle
    /\ writers \in [WriterIds -> {Writer("start", Session(cookies, 1)) :
                                    cookies \in 1 .. 3}]

\* Line 131: process w opens the session file with mode "w", which truncates
\* it.
WriterOpen(w) ==
    /\ writers[w].stage = "start"
    /\ session_file' = Some(EmptyFile)
    /\ writers' = [writers EXCEPT ![w].stage = "open"]
    /\ UNCHANGED <<analyzer, matcherVars, runVars, SAVE_SESSION, now, runs,
                   prev_error, last_load, persist, login_calls, validate_log,
                   login_result, exit_status, retrying, probe, llm,
                   credentials, browser, sleeps, ledger_log, kdp>>

\* Lines 132-133: process w writes its record and closes the file; it is the
\* last to finish when the other process has closed its file before.
WriterDump(w) ==
    /\ writers[w].stage = "open"
    /\ session_file' = Some(Overwrite(session_file[1], writers[w].session, now))
    /\ writers' =
          [writers EXCEPT ![w].stage =
              IF \E v \in WriterIds \ {w} : writers[v].stage = "closed"
              THEN "closed_last" ELSE "closed"]
    /\ UNCHANGED <<analyzer, matcherVars, runVars, SAVE_SESSION, now, runs,
                   prev_error, last_load, persist, login_calls, validate_log,
                   login_result, exit_status, retrying, probe, llm,
                   credentials, browser, sleeps, ledger_log, kdp>>

NextConcurrent ==
    \E w \in WriterIds :
        \/ WriterOpen(w)
        \/ WriterDump(w)

SpecConcurrent == InitConcurrent /\ [][NextConcurrent]_vars

\* C37: after both concurrent persists have finished, the session file is
\* the complete record of the session whose persist finished last.
C37_LastWriterWins ==
    \A w \in WriterIds :
        writers[w].stage = "closed_last"
            => session_file = Some(SessionRecord(writers[w].session, now))

(***************************************************************************)
(* SpecKdp: KeurigDrPepperScraper.scrape_jobs of src/job_scraper_design.py *)
(***************************************************************************)
\* The most postings the career site lists in the runs followed.
MaxKdpJobs == 2

KdpIds == {"k1", "k2", "k3"}

\* The lists of posting ids the site can show.
KdpScraped == UNION {[1 .. n -> KdpIds] : n \in 0 .. MaxKdpJobs}

\* Lines 2101-2115: the KeurigDrPepperJob built for a posting; is_new is the
\* literal True, whatever existing_job_ids holds.
KdpJob(id, existing) == [job_id |-> id, is_new |-> TRUE]

InitKdp ==
    /\ analyzer = [candidate_profile |-> TRUE,
                   threshold_tier1 |-> DefaultThresholdTier1,
                   final_threshold |-> DefaultFinalThreshold,
                   llm_debug |-> FALSE]
    /\ MatcherIdle
    /\ RunIdle
    /\ credentials = TRUE
    /\ CallsIdle
    /\ NoSessionFile
    /\ writers = WritersIdle
    /\ pc = "start"
    /\ api = OneJobApi
    /\ csv_file = None
    /\ test_mode = FALSE
    /\ \E ledger \in SUBSET KdpIds, scraped \in KdpScraped :
          kdp = Kdp("start", ledger, {}, scraped, <<>>, {})

\* Lines 1783-2118: the session is there, the ledger ids are loaded and a
\* job is built for every posting found.
KdpCollect ==
    /\ kdp.stage = "start"
    /\ kdp' = Kdp("scraped", kdp.ledger, kdp.ledger, kdp.scraped,
                  [i \in 1 .. Len(kdp.scraped) |->
                      KdpJob(kdp.scraped[i], kdp.ledger)],
                  {})
    /\ UNCHANGED <<analyzer, matcherVars, runVars, sessionVars, exit_status,
                   retrying, probe, llm, credentials, browser, sleeps,
                   ledger_log, writers>>

\* Lines 2148-2164: save_jobs_to_csv appends a row for every id that is not
\* in existing_job_ids (a failed write is logged), and new_job_ids is set to
\* the ids of the jobs flagged is_new.
KdpSave ==
    /\ kdp.stage = "scraped"
    /\ \E written \in BOOLEAN :
          kdp' = Kdp("done",
                     IF written
                     THEN kdp.ledger \cup {kdp.scraped[i] :
                                              i \in 1 .. Len(kdp.scraped)}
                     ELSE kdp.ledger,
                     kdp.loaded, kdp.scraped, kdp.jobs,
                     {kdp.jobs[i].job_id :
                         i \in {j \in 1 .. Len(kdp.jobs) : kdp.jobs[j].is_new}})
    /\ UNCHANGED <<analyzer, matcherVars, runVars, sessionVars, exit_status,
                   retrying, probe, llm, credentials, browser, sleeps,
                   ledger_log, writers>>

NextKdp ==
    \/ KdpCollect
    \/ KdpSave

SpecKdp == InitKdp /\ [][NextKdp]_vars

\* C38: a job scrape_jobs returns is flagged is_new only if its id is absent
\* from the ids load_existing_job_ids returned, and new_job_ids holds no id
\* of the ledger.
C38_KdpNewOnlyIfAbsentFromLedger ==
    kdp.stage = "done" =>
        /\ \A i \in 1 .. Len(kdp.jobs) :
              kdp.jobs[i].is_new => kdp.jobs[i].job_id \notin kdp.loaded
        /\ kdp.new_job_ids \cap kdp.loaded = {}

\* C39: a response that fetch_jobs accepted, the empty JSON object
\* included, is processed as a page; the probe and the abort follow only a
\* fetch_with_retry that used up its attempts.
C39_AcceptedResponseIsProcessed ==
    [][(pc = "fetched" /\ response_data # None /\ error' # "Killed")
          => (validate_log' = validate_log /\ pc' # "aborted")]_vars

\* The jobs of this run carry their is_new flag.
FlagsSet == pc \in {"analyze", "report", "append", "done"}

\* The sequence q starts with the sequence r.
IsPrefix(r, q) == Len(r) <= Len(q) /\ SubSeq(q, 1, Len(r)) = r

====
